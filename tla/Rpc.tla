--------------------------------- MODULE Rpc --------------------------------
(***************************************************************************)
(* What a caller of londo-grpcd's lookup methods is promised: the database *)
(* is read at most once for a call, between the call and its return; a     *)
(* call that succeeds delivers all that was found then; and whether it is  *)
(* served or denied depends on nothing else.  The promise holds for calls  *)
(* from an address that follow one another, and is off for the address     *)
(* once two were under way together.  Module Replies shows how goroutines, *)
(* reply queues and dbd implement it.                                      *)
(***************************************************************************)
EXTENDS Integers

CONSTANTS
    Calls,       \* the calls made
    Addrs,       \* the addresses they come from
    MaxRecords   \* bound: records one query finds

VARIABLES
    adding,  \* the calls that add a subject, which must not exist yet
    from,    \* the address each call comes from
    state,   \* what each call is doing
    found,   \* what the database found for it, once it was read
    result,  \* the number of records delivered, once it succeeded
    crowded  \* the addresses two calls were under way from at once

vars == <<adding, from, state, found, result, crowded>>

Unread == -1
Counts == {Unread} \cup 0 .. MaxRecords

Init ==
    /\ adding \in SUBSET Calls
    /\ from \in [Calls -> Addrs]
    /\ state = [c \in Calls |-> "idle"]
    /\ found = [c \in Calls |-> Unread]
    /\ result = [c \in Calls |-> Unread]
    /\ crowded = {}

Ask(c) ==
    /\ state[c] = "idle"
    /\ state' = [state EXCEPT ![c] = "asked"]
    /\ crowded' = IF \E d \in Calls : from[d] = from[c] /\ state[d] = "asked"
                  THEN crowded \cup {from[c]} ELSE crowded
    /\ UNCHANGED <<found, result>>

(* The one moment the database is read. *)
Find(c) ==
    /\ state[c] = "asked"
    /\ found[c] = Unread
    /\ \E n \in 0 .. MaxRecords : found' = [found EXCEPT ![c] = n]
    /\ UNCHANGED <<state, result, crowded>>

Wanted(c) == (c \in adding) <=> (found[c] = 0)

(* All of what was found ... *)
Succeed(c) ==
    /\ state[c] = "asked"
    /\ found[c] # Unread /\ Wanted(c)
    /\ state' = [state EXCEPT ![c] = "ok"]
    /\ result' = [result EXCEPT ![c] = found[c]]
    /\ UNCHANGED <<found, crowded>>

(* ... or "not found", and "already exists" for a subject to be added ... *)
Deny(c) ==
    /\ state[c] = "asked"
    /\ found[c] # Unread /\ ~Wanted(c)
    /\ state' = [state EXCEPT ![c] = "denied"]
    /\ UNCHANGED <<found, result, crowded>>

(* ... or an error, at any time. *)
Fail(c) ==
    /\ state[c] \in {"idle", "asked"}
    /\ state' = [state EXCEPT ![c] = "failed"]
    /\ UNCHANGED <<found, result, crowded>>

(* Calls from a crowded address are promised nothing, and disturb nobody   *)
(* else.                                                                   *)
Jumble ==
    /\ state' \in [Calls -> {"idle", "asked", "ok", "denied", "failed"}]
    /\ found' \in [Calls -> Counts]
    /\ result' \in [Calls -> Counts]
    /\ \A c \in Calls :
          from[c] \notin crowded =>
              /\ state'[c] = state[c]
              /\ found'[c] = found[c]
              /\ result'[c] = result[c]
    /\ UNCHANGED crowded

Next ==
    /\ \/ \E c \in Calls : Ask(c) \/ Find(c) \/ Succeed(c) \/ Deny(c) \/ Fail(c)
       \/ Jumble
    /\ UNCHANGED <<adding, from>>

Spec == Init /\ [][Next]_vars
=============================================================================
