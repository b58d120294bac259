---------------------------- MODULE VersionFeed -----------------------------
(***************************************************************************)
(* What the event log of a company promises to the devices that pull from  *)
(* it, seen from outside: each event has a position in one history, and a  *)
(* device that has read up to position n only ever needs what lies beyond  *)
(* n.  SyncEventLog implements this specification.                         *)
(***************************************************************************)
EXTENDS Integers

CONSTANT Events

VARIABLES
    top,       \* the last position handed out
    position,  \* the position of an event, 0 when it has none
    live       \* the events a pull may return

feedVars == <<top, position, live>>

FeedTypeOK ==
    /\ top \in Nat
    /\ position \in [Events -> Nat]
    /\ live \subseteq Events

Init ==
    /\ top = 0
    /\ position = [e \in Events |-> 0]
    /\ live = {}

(* The events of S get fresh, distinct positions beyond the top; others    *)
(* may leave the feed.                                                     *)
Publish(S) ==
    /\ S # {}
    /\ top' \in Nat /\ top' > top
    /\ position' \in [Events -> Nat]
    /\ \A e \in S : top < position'[e] /\ position'[e] <= top'
    /\ \A e, f \in S : position'[e] = position'[f] => e = f
    /\ \A e \in Events \ S : position'[e] = position[e]
    /\ live' \subseteq live \cup S

(* An event leaves the feed: its conflict was resolved, or it was dropped. *)
Withdraw ==
    /\ live' \subseteq live
    /\ UNCHANGED <<top, position>>

Next == Withdraw \/ \E S \in SUBSET Events : Publish(S)

Spec == Init /\ [][Next]_feedVars

-----------------------------------------------------------------------------
(* No two events share a position, and none lies beyond the top.           *)
PositionsUnique ==
    \A e, f \in Events :
        /\ position[e] <= top
        /\ position[e] = position[f] /\ position[e] # 0 => e = f

(* A reader that has seen everything up to the top misses nothing later:   *)
(* what becomes live, or moves, does so beyond the top it had seen.        *)
NothingAppearsBehind ==
    [][\A e \in Events :
          \/ e \in live' /\ e \notin live
          \/ position'[e] # position[e]
          => position'[e] > top]_feedVars
=============================================================================
