----------------------------- MODULE DeviceSlots -----------------------------
(***************************************************************************)
(* mrfevr.c and mrfevg.c: how the kernel driver finds a structure mrf_dev, *)
(* here a slot, for a board that appears and finds it again when the board *)
(* is removed.  The slot that is free is known from its subsystem ID, the  *)
(* slot of a board from the address of its first BAR, which a slot keeps   *)
(* when its board has been removed.  The two drivers have the same code    *)
(* and an array of their own each; this is one of them.                    *)
(*                                                                         *)
(* The kernel calls probe and remove one at a time, remove only for boards *)
(* that probe has accepted.  Boards that are plugged in at the same time   *)
(* have different addresses (external).                                    *)
(***************************************************************************)
EXTENDS Naturals

CONSTANTS
  Boards,
  Addresses,
  MaxDevices  \* MAX_MRF_DEVICES

ASSUME DevicesAssumption == MaxDevices \in Nat

NoAddress == 0        \* of a board that is not plugged in, or of a slot that was never used
Slots == 0 .. MaxDevices - 1

ASSUME AddressesAssumption == NoAddress \notin Addresses

VARIABLES
  address,     \* of the first BAR of each board
  bound,       \* the boards that the driver has accepted
  subsys_id,   \* of each slot: whether it is set
  BAR_start,   \* of each slot: the address of the first BAR
  mapped,      \* of each slot: BARs are mapped
  registered   \* of each slot: the character device has been added

slotVars == <<subsys_id, BAR_start, mapped, registered>>
slotsVars == <<address, bound, slotVars>>

SlotsTypeOK ==
  /\ address \in [Boards -> Addresses \cup {NoAddress}]
  /\ bound \subseteq Boards
  /\ subsys_id \in [Slots -> BOOLEAN]
  /\ BAR_start \in [Slots -> Addresses \cup {NoAddress}]
  /\ mapped \in [Slots -> BOOLEAN]
  /\ registered \in [Slots -> BOOLEAN]

\* pci_evr_init clears the structures.
SlotsInit ==
  /\ address = [b \in Boards |-> NoAddress]
  /\ bound = {}
  /\ subsys_id = [s \in Slots |-> FALSE]
  /\ BAR_start = [s \in Slots |-> NoAddress]
  /\ mapped = [s \in Slots |-> FALSE]
  /\ registered = [s \in Slots |-> FALSE]

-----------------------------------------------------------------------------
Plug(b, a) ==
  /\ address[b] = NoAddress
  /\ \A c \in Boards : address[c] # a
  /\ address' = [address EXCEPT ![b] = a]
  /\ UNCHANGED <<bound, slotVars>>

Unplug(b) ==
  /\ address[b] # NoAddress
  /\ b \notin bound
  /\ address' = [address EXCEPT ![b] = NoAddress]
  /\ UNCHANGED <<bound, slotVars>>

First(slots, s) == s \in slots /\ \A t \in slots : s <= t

\* Faulty variant, for testing SlotsMatchBoards: the search does not stop at the
\* first free slot.
LastFreeSlot(s) == ~subsys_id[s] /\ \A t \in Slots : ~subsys_id[t] => t <= s

FreeSlot(s) == First({t \in Slots : ~subsys_id[t]}, s)

\* The character device is added before the board is enabled.  Without a free
\* slot or without device numbers nothing is changed.
Probing(b, s) ==
  /\ address[b] # NoAddress
  /\ b \notin bound
  /\ FreeSlot(s)
  /\ registered' = [registered EXCEPT ![s] = TRUE]
  /\ UNCHANGED address

\* The board is known by its IDs; an EVG that is not configured has none, and
\* one is set for it.
Probe(b, s) ==
  /\ Probing(b, s)
  /\ BAR_start' = [BAR_start EXCEPT ![s] = address[b]]
  /\ mapped' = [mapped EXCEPT ![s] = TRUE]
  /\ subsys_id' = [subsys_id EXCEPT ![s] = TRUE]
  /\ bound' = bound \cup {b}

\* pci_enable_device has failed: the character device is not removed.
ProbeFails(b, s) ==
  /\ Probing(b, s)
  /\ UNCHANGED <<bound, subsys_id, BAR_start, mapped>>

SlotAt(a, s) == First({t \in Slots : BAR_start[t] = a}, s)

\* There always is such a slot (SlotsMatchBoards); the code has a message for
\* the case that there is none.
Remove(b, s) ==
  /\ b \in bound
  /\ SlotAt(address[b], s)
  /\ registered' = [registered EXCEPT ![s] = FALSE]
  /\ mapped' = [mapped EXCEPT ![s] = FALSE]
  /\ subsys_id' = [subsys_id EXCEPT ![s] = FALSE]
  /\ bound' = bound \ {b}
  /\ UNCHANGED <<address, BAR_start>>

SlotsNext ==
  \E b \in Boards :
    \/ \E a \in Addresses : Plug(b, a)
    \/ Unplug(b)
    \/ \E s \in Slots : Probe(b, s) \/ ProbeFails(b, s) \/ Remove(b, s)

SlotsSpec == SlotsInit /\ [][SlotsNext]_slotsVars

-----------------------------------------------------------------------------
(* Properties.                                                             *)

\* The slot that remove finds for a board is the one that probe has used for it,
\* although slots keep the addresses of boards that were removed and an address
\* may be used again: it is in use, mapped and registered, and every slot that
\* is in use is the one of a board.
SlotsMatchBoards ==
  /\ \A b \in bound : \E s \in Slots :
       SlotAt(address[b], s) /\ subsys_id[s] /\ mapped[s] /\ registered[s]
  /\ \A s \in Slots : subsys_id[s] =>
       \E b \in bound : address[b] = BAR_start[s] /\ SlotAt(address[b], s)
=============================================================================
