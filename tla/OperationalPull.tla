--------------------------- MODULE OperationalPull ---------------------------
(***************************************************************************)
(* The pull half of a sync run: a device reads the company's history page  *)
(* by page from its checkpoint (_pullOperationalPages), applies one change *)
(* after the other (_applyPulledChanges) and, when there was nothing to    *)
(* read, moves the checkpoint to the version getStatus reports.            *)
(*                                                                         *)
(* The server is the feed SyncEventLog implements: events are committed    *)
(* beyond the current version, and may leave the feed.                     *)
(***************************************************************************)
EXTENDS Integers, FiniteSets

CONSTANTS
    CompanyEvents, \* events of the company
    PageLimit,     \* pullLimitPerPage
    MaxPages,      \* maxPullPagesPerRun
    MaxChanges,    \* maxPullChangesPerRun
    MaxVersion,    \* bound: versions the company allocates
    MaxPullFaults  \* bound: crashes, failed requests, changes that do not apply

ASSUME PullAssumption ==
    /\ {PageLimit, MaxPages, MaxChanges} \subseteq Nat \ {0}
    /\ {MaxVersion, MaxPullFaults} \subseteq Nat
    /\ IsFiniteSet(CompanyEvents)

VARIABLES
    \* the server
    version,    \* CompanySyncState.currentVersion
    position,   \* serverVersion of an event, 0 is null
    status,     \* what the event is for pull: accepted, conflict or hidden
    \* the device
    checkpoint, \* the saved checkpoint
    applied,    \* the version of an event the device applied last
    pullPhase,  \* where the run is
    start,      \* the checkpoint the run began with
    safe,       \* safeCheckpoint
    page,       \* changes of the page that are left, with their versions
    hasMore,    \* the page was full
    pages,      \* pages of this run
    changes,    \* changes of this run
    pullFaults

serverVars == <<version, position, status>>
runVars == <<pullPhase, start, safe, page, hasMore, pages, changes>>
pullVars == <<serverVars, checkpoint, applied, runVars, pullFaults>>

Changes == [event : CompanyEvents, version : 1..MaxVersion,
            accepted : BOOLEAN]

PullTypeOK ==
    /\ version \in 0..MaxVersion
    /\ position \in [CompanyEvents -> 0..MaxVersion]
    /\ status \in [CompanyEvents -> {"none", "ACCEPTED", "CONFLICT", "hidden"}]
    /\ checkpoint \in 0..MaxVersion
    /\ applied \in [CompanyEvents -> 0..MaxVersion]
    /\ pullPhase \in {"idle", "pulling", "applying", "saving", "empty"}
    /\ start \in 0..MaxVersion /\ safe \in 0..MaxVersion
    /\ page \subseteq Changes /\ Cardinality(page) <= PageLimit
    /\ hasMore \in BOOLEAN
    /\ pages \in 0..MaxPages /\ changes \in 0..MaxChanges
    /\ pullFaults \in 0..MaxPullFaults

PullInit ==
    /\ version = 0
    /\ position = [e \in CompanyEvents |-> 0]
    /\ status = [e \in CompanyEvents |-> "none"]
    /\ checkpoint = 0
    /\ applied = [e \in CompanyEvents |-> 0]
    /\ pullPhase = "idle" /\ start = 0 /\ safe = 0
    /\ page = {} /\ hasMore = FALSE /\ pages = 0 /\ changes = 0
    /\ pullFaults = 0

-----------------------------------------------------------------------------
(* The server.                                                             *)

(* Mutant: a stored event that is processed again keeps its version.       *)
Commit_KeepsPosition(e, s) ==
    /\ version < MaxVersion
    /\ version' = version + 1
    /\ position' = [position EXCEPT ![e] = IF @ = 0 THEN version + 1 ELSE @]
    /\ status' = [status EXCEPT ![e] = s]
    /\ UNCHANGED <<checkpoint, applied, runVars, pullFaults>>

(* An event is committed with the next version: pushed for the first time, *)
(* or reprocessed.                                                         *)
Commit(e, s) ==
    /\ version < MaxVersion
    /\ version' = version + 1
    /\ position' = [position EXCEPT ![e] = version + 1]
    /\ status' = [status EXCEPT ![e] = s]
    /\ UNCHANGED <<checkpoint, applied, runVars, pullFaults>>

(* A conflict is resolved, or a second reprocess hides an accepted event.  *)
Hide(e) ==
    /\ status[e] \in {"ACCEPTED", "CONFLICT"}
    /\ status' = [status EXCEPT ![e] = "hidden"]
    /\ UNCHANGED <<version, position, checkpoint, applied, runVars, pullFaults>>

Visible(since) ==
    {e \in CompanyEvents :
        status[e] \in {"ACCEPTED", "CONFLICT"} /\ position[e] > since}

(* Mutant: the newest events come first.                                   *)
PageAfter_Newest(since) ==
    {e \in Visible(since) :
        Cardinality({f \in Visible(since) : position[f] > position[e]}) < PageLimit}

(* pull: the first PageLimit visible events beyond the given version.      *)
PageAfter(since) ==
    {e \in Visible(since) :
        Cardinality({f \in Visible(since) : position[f] < position[e]}) < PageLimit}

-----------------------------------------------------------------------------
(* The device.                                                             *)

EndRun ==
    /\ pullPhase' = "idle" /\ start' = 0 /\ safe' = 0
    /\ page' = {} /\ hasMore' = FALSE /\ pages' = 0 /\ changes' = 0

StartPull ==
    /\ pullPhase = "idle"
    /\ pullPhase' = "pulling"
    /\ start' = checkpoint /\ safe' = checkpoint
    /\ UNCHANGED <<serverVars, checkpoint, applied, page, hasMore, pages,
                   changes, pullFaults>>

LimitReached == pages = MaxPages \/ changes = MaxChanges

StopAtLimit ==
    /\ pullPhase = "pulling" /\ LimitReached
    /\ EndRun
    /\ UNCHANGED <<serverVars, checkpoint, applied, pullFaults>>

(* One page.  An empty one ends the pull; when the run pulled nothing at   *)
(* all, the runner goes on to ask for the status.                          *)
PullPage ==
    /\ pullPhase = "pulling" /\ ~LimitReached
    /\ LET events == PageAfter(safe) IN
       IF events = {}
       THEN IF pages = 0
            THEN /\ pullPhase' = "empty"
                 /\ UNCHANGED <<start, safe, page, hasMore, pages, changes>>
            ELSE EndRun
       ELSE /\ pullPhase' = "applying"
            /\ page' = {[event |-> e, version |-> position[e],
                         accepted |-> status[e] = "ACCEPTED"] : e \in events}
            /\ hasMore' = (Cardinality(events) = PageLimit)
            /\ pages' = pages + 1
            /\ UNCHANGED <<start, safe, changes>>
    /\ UNCHANGED <<serverVars, checkpoint, applied, pullFaults>>

First(c) == \A d \in page : c.version <= d.version

(* The next change of the page, lowest version first: applied when it has  *)
(* a projection, which a conflict has not, and saved as the checkpoint.    *)
ApplyChange(c) ==
    /\ pullPhase = "applying" /\ changes < MaxChanges
    /\ c \in page /\ First(c)
    /\ pullPhase' = "saving"
    /\ changes' = changes + 1
    /\ applied' = IF c.accepted THEN [applied EXCEPT ![c.event] = c.version]
                  ELSE applied
    /\ UNCHANGED <<serverVars, checkpoint, start, safe, page, hasMore, pages,
                   pullFaults>>

SaveCheckpoint(c) ==
    /\ pullPhase = "saving"
    /\ c \in page /\ First(c)
    /\ pullPhase' = "applying"
    /\ checkpoint' = c.version /\ safe' = c.version
    /\ page' = page \ {c}
    /\ UNCHANGED <<serverVars, applied, start, hasMore, pages, changes,
                   pullFaults>>

(* The page is applied, or the limit of changes is reached.                *)
EndPage ==
    /\ pullPhase = "applying"
    /\ page = {} \/ changes = MaxChanges
    /\ IF page = {} /\ hasMore
       THEN /\ pullPhase' = "pulling"
            /\ UNCHANGED <<start, safe, page, hasMore, pages, changes>>
       ELSE EndRun
    /\ UNCHANGED <<serverVars, checkpoint, applied, pullFaults>>

(* Mutant: an empty pull leaves the checkpoint where it is.                *)
FastForward_Never ==
    /\ pullPhase = "empty"
    /\ EndRun
    /\ UNCHANGED <<serverVars, checkpoint, applied, pullFaults>>

(* getStatus after a run that pulled nothing: jump to the server's version.*)
FastForward ==
    /\ pullPhase = "empty"
    /\ checkpoint' = IF version > safe THEN version ELSE checkpoint
    /\ EndRun
    /\ UNCHANGED <<serverVars, applied, pullFaults>>

(* A request fails, a change does not apply, or the app is killed: what is *)
(* saved stays, the next run begins from the checkpoint.                   *)
Fail ==
    /\ pullPhase # "idle"
    /\ pullFaults < MaxPullFaults /\ pullFaults' = pullFaults + 1
    /\ EndRun
    /\ UNCHANGED <<serverVars, checkpoint, applied>>

Pull ==
    \/ StartPull \/ StopAtLimit \/ PullPage \/ EndPage \/ FastForward
    \/ \E c \in page : ApplyChange(c) \/ SaveCheckpoint(c)

PullNext ==
    \/ \E e \in CompanyEvents :
          Hide(e) \/ \E s \in {"ACCEPTED", "CONFLICT"} : Commit(e, s)
    \/ Pull
    \/ Fail

PullSpec == PullInit /\ [][PullNext]_pullVars

(* Auto sync never stops starting runs, and a run goes on.                 *)
FairPullSpec == PullSpec /\ WF_pullVars(Pull)

-----------------------------------------------------------------------------
(* Properties.                                                             *)

(* The checkpoint only moves forward and never beyond the company's version*)
(* that was reached, whatever page, limit or failure a run ends with.      *)
CheckpointAdvances ==
    [][checkpoint' >= checkpoint /\ checkpoint' <= version]_pullVars

(* Between the checkpoint a run began with and the one it reached, every   *)
(* accepted event was applied in its latest version: neither the order of  *)
(* a page, its limit, nor commits between two pages leave a gap.           *)
NoGapWithinRun ==
    pullPhase \in {"pulling", "applying", "saving"} =>
        \A e \in CompanyEvents :
            status[e] = "ACCEPTED" /\ start < position[e] /\ position[e] <= safe
                => applied[e] = position[e]

(* When the company is quiet, the device reaches its version: also over    *)
(* versions that are hidden, or were never visible to it.                  *)
CatchesUp == <>[](checkpoint = version)

Feed == INSTANCE VersionFeed WITH
            Events <- CompanyEvents,
            top <- version,
            live <- Visible(0)

FeedSpec == Feed!Spec

=============================================================================
