------------------------------ MODULE Autosave ------------------------------
(***************************************************************************)
(* One question screen in the browser (lib/use-autosave, lib/local-mirror, *)
(* the navigation of app/q/[id]/QuestionShell) and the PATCH it saves      *)
(* with.  Every visit of the screen mounts a hook of its own, starts from  *)
(* an empty form, and goes on saving after the screen was left by a client *)
(* navigation; only a full page load stops it.                             *)
(*                                                                         *)
(* What a network does to a PATCH: it is handled, refused because the      *)
(* respondent has submitted, answered with an error, or the browser gives  *)
(* it up while it may still reach the server (a "stray" write).  A value   *)
(* stands for a storable answer with its confidence.                       *)
(***************************************************************************)
EXTENDS Naturals, FiniteSets

CONSTANTS Values,     \* answers of a storable shape
          Empty,      \* the empty or partial answer, which is never sent
          Nowhere,    \* the respondent is not on the question screen
          MaxVisits,  \* bound: mounts of the screen
          MaxEdits,   \* bound: changes of the answer
          MaxFaults,  \* bound: failed requests, drops of the connection, unlocks
          MaxStrays   \* bound: writes on their way that nobody waits for

ASSUME AutosaveAssumption ==
  /\ Empty \notin Values
  /\ MaxVisits \in Nat \ {0}
  /\ Nowhere \notin 1..MaxVisits
  /\ MaxEdits \in Nat
  /\ MaxFaults \in Nat
  /\ MaxStrays \in Nat

Visits  == 1..MaxVisits
Answers == Values \union {Empty}
Drops   == 0..MaxFaults \* a drain is known by the faults there were before it

VARIABLES
  hook,       \* the hook of each visit, see Fresh
  shown,      \* the visit on screen
  visit,      \* how many visits there were
  mirror,     \* this question's entry in localStorage
  drain,      \* flushPending, after each drop of the connection
  sawOffline, \* wasOfflineRef of the visit on screen
  online,     \* navigator.onLine
  row,        \* the answer the server holds
  written,    \* every answer the server ever held
  submitted,  \* the respondent has submitted, here or in another tab
  strays,     \* writes on their way that nobody waits for any more
  edits, faults

browser == <<shown, visit, mirror, drain, sawOffline, online>>
server  == <<row, written, submitted>>
vars    == <<hook, browser, server, strays, edits, faults>>

LoopStates  == {"off", "sent", "ok", "refused", "failed", "retry"}
Drains      == [st : {"off", "sent", "ok"}, val : Answers]

Hooks == [latest : Answers, saved : Answers, target : Answers,
          preserve : Answers, debounce : BOOLEAN, loop : LoopStates,
          ui : {"none", "saving", "saved", "locked"}, locked : BOOLEAN]

(* latestRef, lastSavedRef, what the loop sent, the text a lock refused,   *)
(* the debounce timer, the loop, the save slot, lockedRef.                 *)
Fresh == [latest |-> Empty, saved |-> Empty, target |-> Empty,
          preserve |-> Empty, debounce |-> FALSE, loop |-> "off",
          ui |-> "none", locked |-> FALSE]

NoDrain == [st |-> "off", val |-> Empty]

Init ==
  /\ hook = [i \in Visits |-> Fresh]
  /\ shown = 1
  /\ visit = 1
  /\ mirror = [val |-> Empty, synced |-> TRUE]
  /\ drain = [d \in Drops |-> NoDrain]
  /\ sawOffline = FALSE
  /\ online = TRUE
  /\ row = Empty
  /\ written = {}
  /\ submitted = FALSE
  /\ strays = {}
  /\ edits = 0
  /\ faults = 0

-----------------------------------------------------------------------------
(* Faulty variants of the definitions below, used by no specification.     *)

MutResumeSettlesAtOnce(h) == [h EXCEPT !.loop = "off", !.ui = "saved"]

MutConfirmLatest(h) == [h EXCEPT !.saved = h.latest]

MutRetryGivesUp(i) ==
  /\ hook[i].loop = "retry"
  /\ hook' = [hook EXCEPT ![i].loop = "off"]
  /\ UNCHANGED <<browser, server, strays, edits, faults>>

-----------------------------------------------------------------------------
Dirty(h) == h.latest # Empty /\ h.latest # h.saved

(* The head of the save loop: send what is unsaved, or settle.             *)
Resume(h) ==
  IF Dirty(h) THEN [h EXCEPT !.loop = "sent", !.target = h.latest, !.ui = "saving"]
  ELSE [h EXCEPT !.loop = "off", !.ui = "saved"]

MutTriggerIgnoresLock(h) == IF h.loop # "off" THEN h ELSE Resume(h)

Trigger(h) == IF h.locked \/ h.loop # "off" THEN h ELSE Resume(h)

(* A reply confirms what was sent, if the form still holds it.             *)
Confirm(h) == IF h.latest = h.target THEN [h EXCEPT !.saved = h.target] ELSE h

(* Only an entry that is there and unsynced changes.                       *)
MarkSynced == mirror' = [mirror EXCEPT !.synced = TRUE]

Store(v) == row' = v /\ written' = written \union {v}
Fault    == faults < MaxFaults /\ faults' = faults + 1

Astray(vs) == /\ strays' = strays \union vs
              /\ Cardinality(strays') <= MaxStrays

-----------------------------------------------------------------------------
(* The respondent changes the answer.  After the render the two effects    *)
(* run: the mirror takes every value, the debounce only what is unsaved.   *)
Edited(h) ==
  IF h.locked \/ ~Dirty(h) THEN h
  ELSE [h EXCEPT !.debounce = TRUE, !.ui = "saving"]

Type(v) ==
  /\ shown # Nowhere
  /\ edits < MaxEdits
  /\ v # hook[shown].latest
  /\ hook' = [hook EXCEPT ![shown] = Edited([@ EXCEPT !.latest = v])]
  /\ mirror' = [val |-> v, synced |-> FALSE]
  /\ edits' = edits + 1
  /\ UNCHANGED <<shown, visit, drain, sawOffline, online, server, strays, faults>>

DebounceFires(i) ==
  /\ hook[i].debounce
  /\ hook' = [hook EXCEPT ![i] = Trigger([@ EXCEPT !.debounce = FALSE])]
  /\ UNCHANGED <<browser, server, strays, edits, faults>>

(* The PATCH of a visit's loop at the server.                              *)
ServerHandles(i) ==
  /\ hook[i].loop = "sent"
  /\ online
  /\ IF submitted
     THEN /\ hook' = [hook EXCEPT ![i].loop = "refused"]
          /\ UNCHANGED <<row, written>>
     ELSE /\ hook' = [hook EXCEPT ![i].loop = "ok"]
          /\ Store(hook[i].target)
  /\ UNCHANGED <<browser, submitted, strays, edits, faults>>

(* An error status, or a rejected fetch whose request may still arrive.    *)
RequestFails(i) ==
  /\ hook[i].loop \in {"sent", "ok"}
  /\ hook' = [hook EXCEPT ![i].loop = "failed"]
  /\ IF online THEN Fault ELSE UNCHANGED faults
  /\ \/ UNCHANGED strays
     \/ hook[i].loop = "sent" /\ Astray({hook[i].target})
  /\ UNCHANGED <<browser, server, edits>>

(* What the loop does with each result, up to its next await.              *)
SaveConfirmed(i) ==
  /\ hook[i].loop = "ok"
  /\ hook' = [hook EXCEPT ![i] = Resume(Confirm(@))]
  /\ IF hook[i].latest = hook[i].target THEN MarkSynced ELSE UNCHANGED mirror
  /\ UNCHANGED <<shown, visit, drain, sawOffline, online, server, strays,
                 edits, faults>>

SaveRefused(i) ==
  /\ hook[i].loop = "refused"
  /\ hook' = [hook EXCEPT ![i].loop = "off", ![i].locked = TRUE,
                          ![i].preserve = hook[i].latest, ![i].ui = "locked"]
  /\ UNCHANGED <<browser, server, strays, edits, faults>>

SaveFailed(i) ==
  /\ hook[i].loop = "failed"
  /\ hook' = [hook EXCEPT ![i].loop = "retry"]
  /\ UNCHANGED <<browser, server, strays, edits, faults>>

RetryFires(i) ==
  /\ hook[i].loop = "retry"
  /\ hook' = [hook EXCEPT ![i] = Resume(@)]
  /\ UNCHANGED <<browser, server, strays, edits, faults>>

-----------------------------------------------------------------------------
(* Leaving the screen.  Continue flushes and navigates on the client: the  *)
(* hook is unmounted and its loop lives on.                                *)
Continue ==
  /\ shown # Nowhere
  /\ hook' = [hook EXCEPT ![shown] = Trigger([@ EXCEPT !.debounce = FALSE])]
  /\ shown' = Nowhere
  /\ sawOffline' = FALSE
  /\ UNCHANGED <<visit, mirror, drain, online, server, strays, edits, faults>>

(* The question again, by the browser's Back button or after a page load:  *)
(* a new mount.  The page redirects a respondent who has submitted.        *)
Return ==
  /\ shown = Nowhere
  /\ visit < MaxVisits
  /\ ~submitted
  /\ shown' = visit + 1
  /\ visit' = visit + 1
  /\ UNCHANGED <<hook, mirror, drain, sawOffline, online, server, strays, edits, faults>>

(* The page is hidden: a keepalive PATCH whose answer nobody reads.        *)
Keepalive ==
  IF shown # Nowhere /\ Dirty(hook[shown]) /\ ~hook[shown].locked
  THEN {hook[shown].latest} ELSE {}

Hide ==
  /\ Keepalive # {}
  /\ Astray(Keepalive)
  /\ UNCHANGED <<hook, browser, server, edits, faults>>

InFlight == {hook[i].target : i \in {j \in Visits : hook[j].loop = "sent"}}
            \union {drain[d].val : d \in {j \in Drops : drain[j].st = "sent"}}

(* A full page load (the Back and edit links), or a killed tab, which      *)
(* sends no keepalive: every hook is gone, what was sent may still land.   *)
Leave ==
  /\ \E last \in {Keepalive, {}}, sent \in SUBSET InFlight : Astray(last \union sent)
  /\ hook' = [i \in Visits |-> Fresh]
  /\ shown' = Nowhere
  /\ sawOffline' = FALSE
  /\ drain' = [d \in Drops |-> NoDrain]
  /\ UNCHANGED <<visit, mirror, online, server, edits, faults>>

-----------------------------------------------------------------------------
(* Offline and back.  Only the mounted hook listens, and it drains the     *)
(* mirror when it saw both events, whether or not an earlier drain of it   *)
(* is still waiting for its answer.                                        *)
GoOffline ==
  /\ online
  /\ Fault
  /\ online' = FALSE
  /\ sawOffline' = (shown # Nowhere)
  /\ UNCHANGED <<hook, shown, visit, mirror, drain, server, strays, edits>>

Pending == ~mirror.synced /\ mirror.val # Empty

GoOnline ==
  /\ ~online
  /\ online' = TRUE
  /\ sawOffline' = FALSE
  /\ drain' = IF sawOffline /\ Pending
              THEN [drain EXCEPT ![faults] = [st |-> "sent", val |-> mirror.val]]
              ELSE drain
  /\ UNCHANGED <<hook, shown, visit, mirror, server, strays, edits, faults>>

(* A refusal or a failure leaves the entry as it is.                       *)
DrainHandled(d) ==
  /\ drain[d].st = "sent"
  /\ online
  /\ IF submitted
     THEN drain' = [drain EXCEPT ![d] = NoDrain] /\ UNCHANGED <<row, written>>
     ELSE drain' = [drain EXCEPT ![d].st = "ok"] /\ Store(drain[d].val)
  /\ UNCHANGED <<hook, shown, visit, mirror, sawOffline, online, submitted,
                 strays, edits, faults>>

DrainFails(d) ==
  /\ drain[d].st \in {"sent", "ok"}
  /\ drain' = [drain EXCEPT ![d] = NoDrain]
  /\ IF online THEN Fault ELSE UNCHANGED faults
  /\ \/ UNCHANGED strays
     \/ drain[d].st = "sent" /\ Astray({drain[d].val})
  /\ UNCHANGED <<hook, shown, visit, mirror, sawOffline, online, server, edits>>

(* The entry is marked whatever it holds by now.                           *)
DrainEnds(d) ==
  /\ drain[d].st = "ok"
  /\ MarkSynced
  /\ drain' = [drain EXCEPT ![d] = NoDrain]
  /\ UNCHANGED <<hook, shown, visit, sawOffline, online, server, strays,
                 edits, faults>>

-----------------------------------------------------------------------------
(* Writes that arrive late, or never; the submit, here on the review       *)
(* screen or in another tab; the facilitator's unlock.                     *)
StrayLands(v) ==
  /\ v \in strays
  /\ strays' = strays \ {v}
  /\ IF submitted THEN UNCHANGED <<row, written>> ELSE Store(v)
  /\ UNCHANGED <<hook, browser, submitted, edits, faults>>

StrayLost(v) ==
  /\ v \in strays
  /\ strays' = strays \ {v}
  /\ UNCHANGED <<hook, browser, server, edits, faults>>

Submit ==
  /\ ~submitted
  /\ submitted' = TRUE
  /\ UNCHANGED <<hook, browser, row, written, strays, edits, faults>>

Unlock ==
  /\ submitted
  /\ Fault
  /\ submitted' = FALSE
  /\ UNCHANGED <<hook, browser, row, written, strays, edits>>

-----------------------------------------------------------------------------
LoopStep(i) ==
  \/ DebounceFires(i) \/ ServerHandles(i) \/ SaveConfirmed(i)
  \/ SaveRefused(i)   \/ SaveFailed(i)    \/ RetryFires(i)

DrainStep(d) == DrainHandled(d) \/ DrainEnds(d)

Next ==
  \/ \E v \in Answers : Type(v)
  \/ \E i \in Visits : LoopStep(i) \/ RequestFails(i)
  \/ Continue \/ Return \/ Hide \/ Leave
  \/ GoOffline \/ GoOnline
  \/ \E d \in Drops : DrainStep(d) \/ DrainFails(d)
  \/ \E v \in Values : StrayLands(v) \/ StrayLost(v)
  \/ Submit \/ Unlock

Spec == Init /\ [][Next]_vars

(* Each hook gets on, by one of its steps: a timer fires, a PATCH that      *)
(* reached the server is answered, a result is taken up; and the           *)
(* connection comes back.                                                  *)
Fairness ==
  /\ \A i \in Visits : WF_vars(LoopStep(i))
  /\ WF_vars(GoOnline)

FairSpec == Spec /\ Fairness

-----------------------------------------------------------------------------
TypeOK ==
  /\ hook \in [Visits -> Hooks]
  /\ shown \in Visits \union {Nowhere}
  /\ visit \in Visits
  /\ mirror \in [val : Answers, synced : BOOLEAN]
  /\ drain \in [Drops -> Drains]
  /\ sawOffline \in BOOLEAN
  /\ online \in BOOLEAN
  /\ row \in Answers
  /\ written \in SUBSET Values
  /\ submitted \in BOOLEAN
  /\ strays \in SUBSET Values
  /\ edits \in 0..MaxEdits
  /\ faults \in 0..MaxFaults

(* No lost wake-up: whatever was typed while a save was in flight, failed  *)
(* or waiting to retry, an unsaved answer always has a timer or a loop     *)
(* that will send it, unless the server has locked it.                     *)
UnsavedIsScheduled ==
  \A i \in Visits :
    LET h == hook[i]
    IN  Dirty(h) /\ ~h.locked => h.debounce \/ h.loop # "off"

(* "Saved" is never shown over an answer the server has not held: the loop *)
(* remembers what it sent, not what the form holds when the reply comes.   *)
SavedWasStored ==
  \A i \in Visits :
    hook[i].ui = "saved" /\ hook[i].latest # Empty => hook[i].latest \in written

(* A lock is terminal for a mounted question (useAutosave): no timer, edit *)
(* or flush makes the hook send again, and the slot goes on saying so.     *)
LockIsTerminal ==
  [][\A i \in Visits :
       hook[i].locked =>
         \/ hook'[i] = Fresh
         \/ hook'[i].locked /\ hook'[i].loop = "off" /\ hook'[i].ui = "locked"]_vars

(* Every unsaved answer is eventually saved, locked, replaced by a partial *)
(* one or gone with its page, whatever fails in between.                   *)
UnsavedIsSettled ==
  \A i \in Visits : Dirty(hook[i]) ~> ~Dirty(hook[i]) \/ hook[i].locked

(* The slot never says "Saving..." for ever.                               *)
SavingEnds == \A i \in Visits : hook[i].ui = "saving" ~> hook[i].ui # "saving"

(* What "Saved" claims (lib/use-autosave: "the value that was last         *)
(* confirmed saved on the server"): the answer on the screen is the answer *)
(* the server holds.                                                       *)
SavedIsStored ==
  \A i \in Visits :
    hook[i].ui = "saved" /\ hook[i].latest # Empty => row = hook[i].latest

(* lib/sync-conflict: typed text is never silently discarded; what a lock  *)
(* refused is on the screen for the respondent to see.                     *)
RefusedTextIsShown ==
  \A i \in Visits :
    hook[i].locked /\ hook[i].preserve \notin written \union {Empty} => shown = i
=============================================================================
