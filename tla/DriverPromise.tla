----------------------------- MODULE DriverPromise -----------------------------
(***************************************************************************)
(* What the client interface promises of a driver (client.h): the first    *)
(* session reads the list of devices and the last one drops it; opening a  *)
(* session shows the whole list or nothing, and the list stays the same as *)
(* long as there is a session; jobs belong to open sessions that may write *)
(* and are released before them.  Every call is a single step here,        *)
(* however many device calls may fail inside it.                           *)
(***************************************************************************)
CONSTANTS
  Clients,       \* handles of client sessions
  Jobs,          \* handles of jobs
  NULL,          \* the null pointer
  Listings,      \* the lists of devices a configuration can give
  NoListing      \* the list when nothing is loaded

VARIABLES
  listing,       \* the devices that are configured
  phase,         \* each session: absent, allocated or open
  visible,       \* the devices each session shows
  writable,      \* whether each session may create jobs
  owner          \* the session each job belongs to

promiseVars == <<listing, phase, visible, writable, owner>>

Phase == {"absent", "allocated", "open"}

Init ==
  /\ listing = NoListing
  /\ phase = [c \in Clients |-> "absent"]
  /\ visible = [c \in Clients |-> NoListing]
  /\ writable = [c \in Clients |-> FALSE]
  /\ owner = [j \in Jobs |-> NULL]

Alone(c) == \A d \in Clients \ {c} : phase[d] = "absent"

\* The first session finds the configuration as it is at that time.
Allocate(c) ==
  /\ phase[c] = "absent"
  /\ phase' = [phase EXCEPT ![c] = "allocated"]
  /\ IF Alone(c) THEN listing' \in Listings ELSE listing' = listing
  /\ UNCHANGED <<visible, writable, owner>>

\* Every configured device opens.
Open(c) ==
  /\ phase[c] = "allocated"
  /\ phase' = [phase EXCEPT ![c] = "open"]
  /\ visible' = [visible EXCEPT ![c] = listing]
  /\ \E mode \in BOOLEAN : writable' = [writable EXCEPT ![c] = mode]
  /\ UNCHANGED <<listing, owner>>

Release(c) ==
  /\ phase[c] # "absent"
  /\ \A j \in Jobs : owner[j] # c
  /\ phase' = [phase EXCEPT ![c] = "absent"]
  /\ visible' = [visible EXCEPT ![c] = NoListing]
  /\ writable' = [writable EXCEPT ![c] = FALSE]
  /\ listing' = IF Alone(c) THEN NoListing ELSE listing
  /\ UNCHANGED owner

CreateJob(c, j) ==
  /\ phase[c] = "open"
  /\ writable[c]
  /\ visible[c] # NoListing
  /\ owner[j] = NULL
  /\ owner' = [owner EXCEPT ![j] = c]
  /\ UNCHANGED <<listing, phase, visible, writable>>

FreeJob(j) ==
  /\ owner[j] # NULL
  /\ owner' = [owner EXCEPT ![j] = NULL]
  /\ UNCHANGED <<listing, phase, visible, writable>>

Next ==
  \/ \E c \in Clients : \/ Allocate(c)
                        \/ Open(c)
                        \/ Release(c)
                        \/ \E j \in Jobs : CreateJob(c, j)
  \/ \E j \in Jobs : FreeJob(j)

Spec == Init /\ [][Next]_promiseVars
=============================================================================
