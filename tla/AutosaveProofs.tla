--------------------------- MODULE AutosaveProofs ---------------------------
(***************************************************************************)
(* Proofs about Autosave, for every set of answers and every bound.  The   *)
(* inductive invariant is about one hook at a time: what it takes for      *)
(* saved was really held by the server, a "Saved" slot covers what is on   *)
(* the screen, an unsaved answer has something that will send it, and a    *)
(* locked hook has neither a loop nor any other slot.                      *)
(***************************************************************************)
EXTENDS Autosave, TLAPS

(* Of one hook h, when the server has held the answers w.                  *)
HookOK(h, w) ==
  /\ h.saved \in w \union {Empty}
  /\ h.loop \in {"sent", "ok"} => h.target # Empty
  /\ h.loop = "ok" => h.target \in w
  /\ h.ui = "saved" => ~Dirty(h)
  /\ h.locked => h.loop = "off" /\ h.ui = "locked"
  /\ Dirty(h) /\ ~h.locked => h.debounce \/ h.loop # "off"

HooksOK == \A i \in Visits : HookOK(hook[i], written)
DrainOK == \A d \in Drops : drain[d].st # "off" => drain[d].val # Empty
IInv    == TypeOK /\ HooksOK /\ DrainOK

-----------------------------------------------------------------------------
LEMMA FreshTyped == Fresh \in Hooks
  BY DEF Fresh, Hooks, Answers, LoopStates

LEMMA FreshOK ==
  ASSUME NEW w PROVE HookOK(Fresh, w)
  BY DEF HookOK, Fresh, Dirty

LEMMA InitIInv == Init => IInv
<1> SUFFICES ASSUME Init PROVE IInv
  OBVIOUS
<1>1. TypeOK
  <2>1. 1 \in Visits
    BY AutosaveAssumption DEF Visits
  <2>2. 0 \in 0..MaxEdits /\ 0 \in 0..MaxFaults
    BY AutosaveAssumption
  <2>3. hook \in [Visits -> Hooks] /\ mirror \in [val : Answers, synced : BOOLEAN]
        /\ drain \in [Drops -> Drains]
    BY FreshTyped DEF Init, NoDrain, Drains, Answers
  <2> QED BY <2>1, <2>2, <2>3 DEF Init, TypeOK, Answers
<1>2. HooksOK
  BY FreshOK DEF Init, HooksOK
<1>3. DrainOK
  BY DEF Init, DrainOK, NoDrain
<1> QED BY <1>1, <1>2, <1>3 DEF IInv

-----------------------------------------------------------------------------
(* What the pieces of the hook make of a hook.                             *)
LEMMA ResumeOK ==
  ASSUME NEW h \in Hooks, NEW w, h.saved \in w \union {Empty}, ~h.locked
  PROVE  /\ Resume(h) \in Hooks
         /\ HookOK(Resume(h), w)
         /\ ~Resume(h).locked
<1>1. CASE Dirty(h)
  <2>1. Resume(h) = [h EXCEPT !.loop = "sent", !.target = h.latest, !.ui = "saving"]
    BY <1>1 DEF Resume
  <2>2. h.latest # Empty
    BY <1>1 DEF Dirty
  <2> QED BY <2>1, <2>2 DEF Hooks, LoopStates, HookOK, Dirty
<1>2. CASE ~Dirty(h)
  <2>1. Resume(h) = [h EXCEPT !.loop = "off", !.ui = "saved"]
    BY <1>2 DEF Resume
  <2> QED BY <1>2, <2>1 DEF Hooks, LoopStates, HookOK, Dirty
<1> QED BY <1>1, <1>2

LEMMA TriggerOK ==
  ASSUME NEW h \in Hooks, NEW w, HookOK(h, w)
  PROVE  /\ Trigger([h EXCEPT !.debounce = FALSE]) \in Hooks
         /\ HookOK(Trigger([h EXCEPT !.debounce = FALSE]), w)
         /\ h.locked => Trigger([h EXCEPT !.debounce = FALSE]).locked
<1> DEFINE g == [h EXCEPT !.debounce = FALSE]
<1>1. /\ g \in Hooks /\ g.saved = h.saved /\ g.latest = h.latest
      /\ g.target = h.target /\ g.loop = h.loop /\ g.ui = h.ui
      /\ g.locked = h.locked
  BY DEF Hooks
<1> HIDE DEF g
<1>2. CASE g.locked \/ g.loop # "off"
  <2>1. Trigger(g) = g
    BY <1>2 DEF Trigger
  <2>2. HookOK(g, w)
    BY <1>1, <1>2 DEF HookOK, Dirty
  <2> QED BY <1>1, <2>1, <2>2 DEF g
<1>3. CASE ~(g.locked \/ g.loop # "off")
  <2>1. Trigger(g) = Resume(g)
    BY <1>3 DEF Trigger
  <2>2. g.saved \in w \union {Empty}
    BY <1>1 DEF HookOK
  <2> QED BY <1>1, <1>3, <2>1, <2>2, ResumeOK DEF g
<1> QED BY <1>2, <1>3

LEMMA ConfirmOK ==
  ASSUME NEW h \in Hooks, NEW w, HookOK(h, w), h.loop = "ok"
  PROVE  /\ Resume(Confirm(h)) \in Hooks
         /\ HookOK(Resume(Confirm(h)), w)
<1>1. h.target \in w /\ ~h.locked
  BY DEF HookOK, Hooks
<1>2. Confirm(h) \in Hooks /\ ~Confirm(h).locked
      /\ Confirm(h).saved \in w \union {Empty}
  BY <1>1 DEF Confirm, Hooks, HookOK
<1> QED BY <1>2, ResumeOK

LEMMA EditedOK ==
  ASSUME NEW h \in Hooks, NEW w, HookOK(h, w), NEW v \in Answers
  PROVE  /\ Edited([h EXCEPT !.latest = v]) \in Hooks
         /\ HookOK(Edited([h EXCEPT !.latest = v]), w)
         /\ h.locked => Edited([h EXCEPT !.latest = v]).locked
<1> DEFINE g == [h EXCEPT !.latest = v]
<1>1. /\ g \in Hooks /\ g.saved = h.saved /\ g.target = h.target
      /\ g.loop = h.loop /\ g.ui = h.ui /\ g.locked = h.locked
  BY DEF Hooks
<1> HIDE DEF g
<1>2. CASE g.locked \/ ~Dirty(g)
  <2>1. Edited(g) = g
    BY <1>2 DEF Edited
  <2>2. HookOK(g, w)
    BY <1>1, <1>2 DEF HookOK
  <2> QED BY <1>1, <2>1, <2>2 DEF g
<1>3. CASE ~g.locked /\ Dirty(g)
  <2>1. Edited(g) = [g EXCEPT !.debounce = TRUE, !.ui = "saving"]
    BY <1>3 DEF Edited
  <2>2. Edited(g) \in Hooks /\ HookOK(Edited(g), w)
    BY <1>1, <1>3, <2>1 DEF Hooks, HookOK, Dirty
  <2> QED BY <1>1, <1>3, <2>2 DEF g
<1> QED BY <1>2, <1>3 DEF Hooks

-----------------------------------------------------------------------------
(* One hook moves, and the server forgets nothing.                         *)
LEMMA OneHook ==
  ASSUME IInv, NEW i \in Visits, NEW h \in Hooks, hook' = [hook EXCEPT ![i] = h],
         written \subseteq written', HookOK(h, written')
  PROVE  HooksOK' /\ hook' \in [Visits -> Hooks]
<1>1. hook \in [Visits -> Hooks]
  BY DEF IInv, TypeOK
<1>2. ASSUME NEW j \in Visits PROVE HookOK(hook'[j], written')
  <2>1. HookOK(hook[j], written)
    BY DEF IInv, HooksOK
  <2>2. HookOK(hook[j], written')
    BY <2>1 DEF HookOK
  <2> QED BY <1>1, <2>2
<1> QED BY <1>1, <1>2 DEF HooksOK

LEMMA SameHooks ==
  ASSUME IInv, hook' = hook, written \subseteq written'
  PROVE  HooksOK' /\ hook' \in [Visits -> Hooks]
<1>1. ASSUME NEW j \in Visits PROVE HookOK(hook'[j], written')
  <2>1. HookOK(hook[j], written)
    BY DEF IInv, HooksOK
  <2> QED BY <2>1 DEF HookOK
<1> QED BY <1>1 DEF HooksOK, IInv, TypeOK

LEMMA TheHook ==
  ASSUME IInv, NEW i \in Visits
  PROVE  hook[i] \in Hooks /\ HookOK(hook[i], written)
  BY DEF IInv, TypeOK, HooksOK

-----------------------------------------------------------------------------
(* The steps of a hook.                                                    *)
LEMMA TypeKeepsIInv ==
  ASSUME IInv, NEW v \in Answers, Type(v)
  PROVE  IInv'
<1>1. shown \in Visits
  BY DEF Type, IInv, TypeOK
<1> DEFINE h == Edited([hook[shown] EXCEPT !.latest = v])
<1>2. h \in Hooks /\ HookOK(h, written)
  BY <1>1, TheHook, EditedOK
<1>3. hook' = [hook EXCEPT ![shown] = h] /\ written' = written
  BY DEF Type, server
<1> HIDE DEF h
<1>4. HooksOK' /\ hook' \in [Visits -> Hooks]
  BY <1>1, <1>2, <1>3, OneHook
<1>5. edits' \in 0..MaxEdits
  BY AutosaveAssumption DEF Type, IInv, TypeOK
<1>6. TypeOK'
  BY <1>4, <1>5 DEF Type, IInv, TypeOK, server
<1>7. DrainOK'
  BY DEF Type, IInv, DrainOK
<1> QED BY <1>4, <1>6, <1>7 DEF IInv

LEMMA QuietHookStep ==
  ASSUME IInv, NEW i \in Visits, NEW h \in Hooks, hook' = [hook EXCEPT ![i] = h],
         HookOK(h, written), UNCHANGED <<shown, visit, drain, online, server, edits>>,
         mirror' \in [val : Answers, synced : BOOLEAN], sawOffline' \in BOOLEAN,
         strays' \in SUBSET Values, faults' \in 0..MaxFaults
  PROVE  IInv'
<1>1. HooksOK' /\ hook' \in [Visits -> Hooks]
  BY OneHook DEF server
<1>2. TypeOK'
  BY <1>1 DEF IInv, TypeOK, server
<1>3. DrainOK'
  BY DEF IInv, DrainOK
<1> QED BY <1>1, <1>2, <1>3 DEF IInv

LEMMA TimersKeepIInv ==
  ASSUME IInv, NEW i \in Visits,
         \/ DebounceFires(i) \/ SaveRefused(i) \/ SaveFailed(i) \/ RetryFires(i)
  PROVE  IInv'
<1> DEFINE old == hook[i]
<1>1. old \in Hooks /\ HookOK(old, written)
  BY TheHook
<1>2. hook \in [Visits -> Hooks]
  BY DEF IInv, TypeOK
<1>3. UNCHANGED <<browser, server, strays, edits, faults>>
  BY DEF DebounceFires, SaveRefused, SaveFailed, RetryFires
<1>4. PICK h \in Hooks : hook' = [hook EXCEPT ![i] = h] /\ HookOK(h, written)
  <2>1. CASE DebounceFires(i)
    BY <1>1, <2>1, TriggerOK DEF DebounceFires
  <2>2. CASE SaveRefused(i)
    <3> DEFINE h == [old EXCEPT !.loop = "off", !.locked = TRUE,
                                !.preserve = old.latest, !.ui = "locked"]
    <3>1. hook' = [hook EXCEPT ![i] = h]
      BY <1>2, <2>2 DEF SaveRefused
    <3>2. h \in Hooks /\ HookOK(h, written)
      BY <1>1 DEF Hooks, LoopStates, HookOK, Dirty
    <3> QED BY <3>1, <3>2
  <2>3. CASE SaveFailed(i)
    <3> DEFINE h == [old EXCEPT !.loop = "retry"]
    <3>1. hook' = [hook EXCEPT ![i] = h] /\ old.loop = "failed"
      BY <2>3 DEF SaveFailed
    <3>2. h \in Hooks /\ HookOK(h, written)
      BY <1>1, <3>1 DEF Hooks, LoopStates, HookOK, Dirty
    <3> QED BY <3>1, <3>2
  <2>4. CASE RetryFires(i)
    <3>1. ~old.locked /\ old.saved \in written \union {Empty}
      BY <1>1, <2>4 DEF RetryFires, HookOK, Hooks
    <3> QED BY <1>1, <2>4, <3>1, ResumeOK DEF RetryFires
  <2> QED BY <2>1, <2>2, <2>3, <2>4
<1>5. /\ mirror' \in [val : Answers, synced : BOOLEAN] /\ sawOffline' \in BOOLEAN
      /\ strays' \in SUBSET Values /\ faults' \in 0..MaxFaults
  BY <1>3 DEF IInv, TypeOK, browser
<1> QED BY <1>3, <1>4, <1>5, QuietHookStep DEF browser

LEMMA SaveConfirmedKeepsIInv ==
  ASSUME IInv, NEW i \in Visits, SaveConfirmed(i)
  PROVE  IInv'
<1> DEFINE h == Resume(Confirm(hook[i]))
<1>1. h \in Hooks /\ HookOK(h, written)
  BY TheHook, ConfirmOK DEF SaveConfirmed
<1>2. hook' = [hook EXCEPT ![i] = h]
  BY DEF SaveConfirmed
<1>3. mirror' \in [val : Answers, synced : BOOLEAN]
  BY DEF SaveConfirmed, MarkSynced, IInv, TypeOK
<1>4. /\ sawOffline' \in BOOLEAN /\ strays' \in SUBSET Values
      /\ faults' \in 0..MaxFaults
  BY DEF SaveConfirmed, IInv, TypeOK
<1> HIDE DEF h
<1> QED BY <1>1, <1>2, <1>3, <1>4, QuietHookStep DEF SaveConfirmed

(* A rejected fetch may leave the request on its way: what it carries was  *)
(* never the empty answer.                                                 *)
LEMMA FaultTyped ==
  ASSUME IInv, (IF online THEN Fault ELSE UNCHANGED faults)
  PROVE  faults' \in 0..MaxFaults
  BY AutosaveAssumption DEF Fault, IInv, TypeOK

LEMMA RequestFailsKeepsIInv ==
  ASSUME IInv, NEW i \in Visits, RequestFails(i)
  PROVE  IInv'
<1> DEFINE old == hook[i]
           h   == [old EXCEPT !.loop = "failed"]
<1>1. old \in Hooks /\ HookOK(old, written) /\ old.loop \in {"sent", "ok"}
  BY TheHook DEF RequestFails
<1>2. h \in Hooks /\ HookOK(h, written)
  BY <1>1 DEF Hooks, LoopStates, HookOK, Dirty
<1>3. hook' = [hook EXCEPT ![i] = h]
  BY DEF RequestFails
<1>4. old.target \in Values
  BY <1>1 DEF HookOK, Hooks, Answers
<1>5. strays' \in SUBSET Values
  BY <1>4 DEF RequestFails, Astray, IInv, TypeOK
<1>6. faults' \in 0..MaxFaults
  BY FaultTyped DEF RequestFails
<1>7. /\ mirror' \in [val : Answers, synced : BOOLEAN] /\ sawOffline' \in BOOLEAN
      /\ UNCHANGED <<shown, visit, drain, online, server, edits>>
  BY DEF RequestFails, browser, IInv, TypeOK
<1> HIDE DEF h
<1> QED BY <1>2, <1>3, <1>5, <1>6, <1>7, QuietHookStep

LEMMA StoreTyped ==
  ASSUME IInv, NEW v \in Values, Store(v)
  PROVE  /\ row' \in Answers /\ written' \in SUBSET Values
         /\ written \subseteq written' /\ v \in written'
  BY DEF Store, IInv, TypeOK, Answers

LEMMA ServerHandlesKeepsIInv ==
  ASSUME IInv, NEW i \in Visits, ServerHandles(i)
  PROVE  IInv'
<1> DEFINE old == hook[i]
<1>1. old \in Hooks /\ HookOK(old, written) /\ old.loop = "sent"
  BY TheHook DEF ServerHandles
<1>2. old.target \in Values /\ ~old.locked
  BY <1>1 DEF HookOK, Hooks, Answers
<1>3. PICK h \in Hooks : /\ hook' = [hook EXCEPT ![i] = h] /\ HookOK(h, written')
                         /\ written \subseteq written'
                         /\ row' \in Answers /\ written' \in SUBSET Values
  <2>1. CASE submitted
    <3> DEFINE h == [old EXCEPT !.loop = "refused"]
    <3>1. h \in Hooks /\ HookOK(h, written)
      BY <1>1, <1>2 DEF Hooks, LoopStates, HookOK, Dirty
    <3>2. /\ hook' = [hook EXCEPT ![i] = h] /\ written' = written
          /\ row' \in Answers /\ written' \in SUBSET Values
      BY <2>1 DEF ServerHandles, IInv, TypeOK
    <3> HIDE DEF h
    <3> QED BY <3>1, <3>2
  <2>2. CASE ~submitted
    <3> DEFINE h == [old EXCEPT !.loop = "ok"]
    <3>1. hook' = [hook EXCEPT ![i] = h] /\ Store(old.target)
      BY <2>2 DEF ServerHandles
    <3>2. /\ row' \in Answers /\ written' \in SUBSET Values
          /\ written \subseteq written' /\ old.target \in written'
      BY <1>2, <3>1, StoreTyped
    <3>3. h \in Hooks /\ HookOK(h, written')
      BY <1>1, <1>2, <3>2 DEF Hooks, LoopStates, HookOK, Dirty
    <3> HIDE DEF h
    <3> QED BY <3>1, <3>2, <3>3
  <2> QED BY <2>1, <2>2
<1>4. HooksOK' /\ hook' \in [Visits -> Hooks]
  BY <1>3, OneHook
<1>5. TypeOK'
  BY <1>3, <1>4 DEF ServerHandles, browser, IInv, TypeOK
<1>6. DrainOK'
  BY DEF ServerHandles, browser, IInv, DrainOK
<1> QED BY <1>4, <1>5, <1>6 DEF IInv
-----------------------------------------------------------------------------
(* Leaving and coming back, the drain, the late writes, the lock.          *)
LEMMA LeavingKeepsIInv ==
  ASSUME IInv, Continue \/ Return \/ Leave
  PROVE  IInv'
<1>1. CASE Continue
  <2>1. shown \in Visits
    BY <1>1 DEF Continue, IInv, TypeOK
  <2> DEFINE h == Trigger([hook[shown] EXCEPT !.debounce = FALSE])
  <2>2. h \in Hooks /\ HookOK(h, written)
    BY <2>1, TheHook, TriggerOK
  <2>3. hook' = [hook EXCEPT ![shown] = h] /\ written' = written
    BY <1>1 DEF Continue, server
  <2> HIDE DEF h
  <2>4. HooksOK' /\ hook' \in [Visits -> Hooks]
    BY <2>1, <2>2, <2>3, OneHook
  <2>5. TypeOK' /\ DrainOK'
    BY <1>1, <2>4 DEF Continue, server, IInv, TypeOK, DrainOK
  <2> QED BY <2>4, <2>5 DEF IInv
<1>2. CASE Return
  <2>1. visit + 1 \in Visits
    BY <1>2, AutosaveAssumption DEF Return, IInv, TypeOK, Visits
  <2>2. HooksOK' /\ hook' \in [Visits -> Hooks]
    BY <1>2, SameHooks DEF Return, server
  <2>3. TypeOK' /\ DrainOK'
    BY <1>2, <2>1, <2>2 DEF Return, server, IInv, TypeOK, DrainOK
  <2> QED BY <2>2, <2>3 DEF IInv
<1>3. CASE Leave
  <2>1. hook' = [i \in Visits |-> Fresh]
    BY <1>3 DEF Leave
  <2>2. HooksOK' /\ hook' \in [Visits -> Hooks]
    BY <2>1, FreshTyped, FreshOK DEF HooksOK
  <2>3. strays' \in SUBSET Values
    <3>1. Keepalive \subseteq Values
      <4>1. shown \in Visits => hook[shown] \in Hooks
        BY TheHook
      <4> QED BY <4>1 DEF Keepalive, Dirty, Hooks, Answers, IInv, TypeOK
    <3>2. InFlight \subseteq Values
      <4>1. \A i \in Visits : hook[i].loop = "sent" => hook[i].target \in Values
        BY TheHook DEF HookOK, Hooks, Answers
      <4>2. \A d \in Drops : drain[d].st = "sent" => drain[d].val \in Values
        BY DEF IInv, TypeOK, DrainOK, Drains, Answers
      <4> QED BY <4>1, <4>2 DEF InFlight
    <3>3. strays \in SUBSET Values
      BY DEF IInv, TypeOK
    <3>4. PICK last \in {Keepalive, {}}, sent \in SUBSET InFlight :
            strays' = strays \union (last \union sent)
      BY <1>3 DEF Leave, Astray
    <3> QED BY <3>1, <3>2, <3>3, <3>4
  <2>4. drain' \in [Drops -> Drains] /\ DrainOK'
    BY <1>3 DEF Leave, NoDrain, Drains, Answers, DrainOK
  <2>5. TypeOK'
    BY <1>3, <2>2, <2>3, <2>4 DEF Leave, server, IInv, TypeOK
  <2> QED BY <2>2, <2>4, <2>5 DEF IInv
<1> QED BY <1>1, <1>2, <1>3

(* A step that touches no hook.                                            *)
LEMMA NoHookStep ==
  ASSUME IInv, hook' = hook, shown' = shown, visit' = visit, edits' = edits,
         mirror' \in [val : Answers, synced : BOOLEAN], sawOffline' \in BOOLEAN,
         online' \in BOOLEAN, drain' \in [Drops -> Drains], DrainOK',
         row' \in Answers, written \subseteq written', written' \in SUBSET Values,
         submitted' \in BOOLEAN, strays' \in SUBSET Values, faults' \in 0..MaxFaults
  PROVE  IInv'
<1>1. HooksOK' /\ hook' \in [Visits -> Hooks]
  BY SameHooks
<1>2. TypeOK'
  BY <1>1 DEF IInv, TypeOK
<1> QED BY <1>1, <1>2 DEF IInv

(* One drain moves.                                                        *)
MovesDrain(d, v) == drain' = [drain EXCEPT ![d] = v]
Drainable(v)     == v \in Drains /\ (v.st # "off" => v.val # Empty)

LEMMA OneDrain ==
  ASSUME TypeOK, DrainOK, NEW d \in Drops, NEW v, Drainable(v), MovesDrain(d, v)
  PROVE  drain' \in [Drops -> Drains] /\ DrainOK'
<1>1. drain \in [Drops -> Drains]
  BY DEF TypeOK
<1>2. \A e \in Drops : drain'[e] = IF e = d THEN v ELSE drain[e]
  BY <1>1 DEF MovesDrain
<1> QED BY <1>1, <1>2 DEF DrainOK, Drainable, MovesDrain

LEMMA NoDrainTyped == Drainable(NoDrain)
  BY DEF NoDrain, Drains, Answers, Drainable

LEMMA ConnectionKeepsIInv ==
  ASSUME IInv, GoOffline \/ GoOnline
  PROVE  IInv'
<1>1. TypeOK /\ DrainOK
  BY DEF IInv
<1>2. CASE GoOffline
  <2>1. faults' \in 0..MaxFaults
    BY <1>1, <1>2, AutosaveAssumption DEF GoOffline, Fault, TypeOK
  <2> QED BY <1>1, <1>2, <2>1, NoHookStep DEF GoOffline, server, TypeOK, DrainOK
<1>3. CASE GoOnline
  <2>1. ASSUME sawOffline, Pending
        PROVE  drain' \in [Drops -> Drains] /\ DrainOK'
    <3> DEFINE v == [st |-> "sent", val |-> mirror.val]
    <3>1. Drainable(v) /\ faults \in Drops
      BY <1>1, <2>1 DEF Pending, TypeOK, Drains, Drops, Drainable
    <3>2. MovesDrain(faults, v)
      BY <1>3, <2>1 DEF GoOnline, MovesDrain
    <3> HIDE DEF v
    <3> QED BY <1>1, <3>1, <3>2, OneDrain
  <2>2. ASSUME ~(sawOffline /\ Pending)
        PROVE  drain' \in [Drops -> Drains] /\ DrainOK'
    BY <1>1, <1>3, <2>2 DEF GoOnline, TypeOK, DrainOK
  <2> QED BY <1>1, <1>3, <2>1, <2>2, NoHookStep DEF GoOnline, server, TypeOK
<1> QED BY <1>2, <1>3

LEMMA DrainKeepsIInv ==
  ASSUME IInv, NEW d \in Drops, DrainHandled(d) \/ DrainFails(d) \/ DrainEnds(d)
  PROVE  IInv'
<1>1. TypeOK /\ DrainOK /\ drain[d] \in Drains /\ drain \in [Drops -> Drains]
  BY DEF IInv, TypeOK
<1>2. drain[d].val \in Values
  <2>1. drain[d].st # "off"
    BY DEF DrainHandled, DrainFails, DrainEnds
  <2> QED BY <1>1, <2>1 DEF DrainOK, Drains, Answers
<1>3. ASSUME MovesDrain(d, NoDrain)
      PROVE  drain' \in [Drops -> Drains] /\ DrainOK'
  BY <1>1, <1>3, NoDrainTyped, OneDrain
<1>4. CASE DrainHandled(d)
  <2>1. row' \in Answers /\ written' \in SUBSET Values /\ written \subseteq written'
    BY <1>1, <1>2, <1>4, StoreTyped DEF DrainHandled, TypeOK
  <2>2. ASSUME ~submitted
        PROVE  drain' \in [Drops -> Drains] /\ DrainOK'
    <3> DEFINE v == [drain[d] EXCEPT !.st = "ok"]
    <3>1. Drainable(v)
      BY <1>1, <1>2, AutosaveAssumption DEF Drains, Drainable
    <3>2. MovesDrain(d, v)
      BY <1>1, <1>4, <2>2 DEF DrainHandled, MovesDrain
    <3> HIDE DEF v
    <3> QED BY <1>1, <3>1, <3>2, OneDrain
  <2>3. drain' \in [Drops -> Drains] /\ DrainOK'
    <3>1. CASE submitted
      <4>1. MovesDrain(d, NoDrain)
        BY <1>4, <3>1 DEF DrainHandled, MovesDrain
      <4> QED BY <1>3, <4>1
    <3> QED BY <2>2, <3>1
  <2> QED BY <1>1, <1>4, <2>1, <2>3, NoHookStep DEF DrainHandled, TypeOK
<1>5. CASE DrainFails(d)
  <2>1. strays' \in SUBSET Values /\ faults' \in 0..MaxFaults
    BY <1>1, <1>2, <1>5, FaultTyped DEF DrainFails, Astray, TypeOK
  <2>2. drain' \in [Drops -> Drains] /\ DrainOK'
    <3>1. MovesDrain(d, NoDrain)
      BY <1>5 DEF DrainFails, MovesDrain
    <3> QED BY <1>3, <3>1
  <2> QED BY <1>1, <1>5, <2>1, <2>2, NoHookStep DEF DrainFails, server, TypeOK
<1>6. CASE DrainEnds(d)
  <2>1. mirror' \in [val : Answers, synced : BOOLEAN]
    BY <1>1, <1>6 DEF DrainEnds, MarkSynced, TypeOK
  <2>2. drain' \in [Drops -> Drains] /\ DrainOK'
    <3>1. MovesDrain(d, NoDrain)
      BY <1>6 DEF DrainEnds, MovesDrain
    <3> QED BY <1>3, <3>1
  <2> QED BY <1>1, <1>6, <2>1, <2>2, NoHookStep DEF DrainEnds, server, TypeOK
<1> QED BY <1>4, <1>5, <1>6

LEMMA OutsideKeepsIInv ==
  ASSUME IInv,
         \/ \E v \in Values : StrayLands(v) \/ StrayLost(v)
         \/ Hide \/ Submit \/ Unlock
  PROVE  IInv'
<1>1. TypeOK /\ DrainOK
  BY DEF IInv
<1>2. ASSUME NEW v \in Values, StrayLands(v) PROVE IInv'
  <2>1. row' \in Answers /\ written' \in SUBSET Values /\ written \subseteq written'
    BY <1>1, <1>2, StoreTyped DEF StrayLands, TypeOK
  <2> QED BY <1>1, <1>2, <2>1, NoHookStep DEF StrayLands, browser, TypeOK, DrainOK
<1>3. ASSUME NEW v \in Values, StrayLost(v) PROVE IInv'
  BY <1>1, <1>3, NoHookStep DEF StrayLost, browser, server, TypeOK, DrainOK
<1>4. CASE Hide
  <2>1. Keepalive \subseteq Values
    <3>1. shown \in Visits => hook[shown] \in Hooks
      BY TheHook
    <3> QED BY <1>1, <3>1 DEF Keepalive, Dirty, Hooks, Answers, TypeOK
  <2>2. strays' \in SUBSET Values
    BY <1>1, <1>4, <2>1 DEF Hide, Astray, TypeOK
  <2> QED BY <1>1, <1>4, <2>2, NoHookStep DEF Hide, browser, server, TypeOK, DrainOK
<1>5. CASE Submit
  BY <1>1, <1>5, NoHookStep DEF Submit, browser, TypeOK, DrainOK
<1>6. CASE Unlock
  <2>1. faults' \in 0..MaxFaults
    BY <1>1, <1>6, AutosaveAssumption DEF Unlock, Fault, TypeOK
  <2> QED BY <1>1, <1>6, <2>1, NoHookStep DEF Unlock, browser, TypeOK, DrainOK
<1> QED BY <1>2, <1>3, <1>4, <1>5, <1>6

LEMMA NextKeepsIInv == IInv /\ [Next]_vars => IInv'
<1> SUFFICES ASSUME IInv, [Next]_vars PROVE IInv'
  OBVIOUS
<1>1. CASE UNCHANGED vars
  BY <1>1 DEF vars, browser, server, IInv, TypeOK, HooksOK, DrainOK
<1>2. CASE Next
  BY <1>2, TypeKeepsIInv, TimersKeepIInv, ServerHandlesKeepsIInv,
     SaveConfirmedKeepsIInv, RequestFailsKeepsIInv, LeavingKeepsIInv,
     ConnectionKeepsIInv, DrainKeepsIInv, OutsideKeepsIInv DEF Next, LoopStep, DrainStep
<1> QED BY <1>1, <1>2

(* The invariant holds in every reachable state.                           *)
THEOREM Inductive == Spec => []IInv
<1> QED BY InitIInv, NextKeepsIInv, PTL DEF Spec

-----------------------------------------------------------------------------
(* Hooks, browser and server have their types.                             *)
THEOREM TypeCorrect == Spec => []TypeOK
<1>1. IInv => TypeOK
  BY DEF IInv
<1> QED BY <1>1, Inductive, PTL

(* No interleaving of edits, timers, failures and navigation leaves an     *)
(* unsaved answer with nothing to send it.                                 *)
THEOREM NoLostWakeUp == Spec => []UnsavedIsScheduled
<1>1. IInv => UnsavedIsScheduled
  BY DEF IInv, HooksOK, HookOK, UnsavedIsScheduled
<1> QED BY <1>1, Inductive, PTL

(* "Saved" is shown only over an answer the server has held.               *)
THEOREM SavedIsEarned == Spec => []SavedWasStored
<1>1. IInv => SavedWasStored
  <2> SUFFICES ASSUME IInv, NEW i \in Visits, hook[i].ui = "saved",
                      hook[i].latest # Empty
               PROVE  hook[i].latest \in written
    BY DEF SavedWasStored
  <2> QED BY TheHook DEF HookOK, Dirty
<1> QED BY <1>1, Inductive, PTL

-----------------------------------------------------------------------------
(* No step but a page load unlocks a hook.                                 *)
LEMMA LockedStays ==
  ASSUME IInv, Next, NEW i \in Visits, hook[i].locked
  PROVE  hook'[i] = Fresh \/ hook'[i].locked
<1>1. hook \in [Visits -> Hooks] /\ hook[i] \in Hooks /\ HookOK(hook[i], written)
  BY TheHook DEF IInv, TypeOK
<1>2. hook[i].loop = "off"
  BY <1>1 DEF HookOK
<1>3. ASSUME NEW v \in Answers, Type(v) PROVE hook'[i].locked
  <2>1. shown \in Visits
    BY <1>3 DEF Type, IInv, TypeOK
  <2>2. hook' = [hook EXCEPT ![shown] = Edited([hook[shown] EXCEPT !.latest = v])]
    BY <1>3 DEF Type
  <2>3. hook[i].locked => Edited([hook[i] EXCEPT !.latest = v]).locked
    BY <1>1, EditedOK
  <2> QED BY <1>1, <2>1, <2>2, <2>3
<1>4. ASSUME NEW j \in Visits,
             \/ ServerHandles(j) \/ SaveConfirmed(j) \/ SaveRefused(j)
             \/ SaveFailed(j) \/ RetryFires(j) \/ RequestFails(j)
      PROVE  hook'[i].locked
  <2>1. hook[j].loop # "off" /\ \E h : hook' = [hook EXCEPT ![j] = h]
    BY <1>1, <1>4 DEF ServerHandles, SaveConfirmed, SaveRefused, SaveFailed,
                      RetryFires, RequestFails
  <2> QED BY <1>1, <1>2, <2>1
<1>5. ASSUME NEW j \in Visits, DebounceFires(j) PROVE hook'[i].locked
  <2>1. hook[i].locked => Trigger([hook[i] EXCEPT !.debounce = FALSE]).locked
    BY <1>1, TriggerOK
  <2> QED BY <1>1, <1>5, <2>1 DEF DebounceFires
<1>6. CASE Continue
  <2>1. shown \in Visits
    BY <1>6 DEF Continue, IInv, TypeOK
  <2>2. hook[i].locked => Trigger([hook[i] EXCEPT !.debounce = FALSE]).locked
    BY <1>1, TriggerOK
  <2> QED BY <1>1, <1>6, <2>1, <2>2 DEF Continue
<1>7. CASE Leave
  BY <1>7 DEF Leave
<1>8. CASE \/ Return \/ Hide \/ GoOffline \/ GoOnline
           \/ \E d \in Drops : DrainStep(d) \/ DrainFails(d)
           \/ \E v \in Values : StrayLands(v) \/ StrayLost(v)
           \/ Submit \/ Unlock
  BY <1>8 DEF Return, Hide, GoOffline, GoOnline, DrainStep, DrainHandled, DrainEnds,
              DrainFails, StrayLands, StrayLost, Submit, Unlock
<1> QED BY <1>3, <1>4, <1>5, <1>6, <1>7, <1>8 DEF Next, LoopStep

(* A locked hook never sends again, whatever is typed or times out.        *)
THEOREM LockIsForGood == Spec => LockIsTerminal
<1> DEFINE Keeps ==
      \A i \in Visits :
        hook[i].locked =>
          \/ hook'[i] = Fresh
          \/ hook'[i].locked /\ hook'[i].loop = "off" /\ hook'[i].ui = "locked"
<1>1. IInv /\ IInv' /\ [Next]_vars => [Keeps]_vars
  <2> SUFFICES ASSUME IInv, IInv', Next, NEW i \in Visits, hook[i].locked
               PROVE  \/ hook'[i] = Fresh
                      \/ hook'[i].locked /\ hook'[i].loop = "off"
                         /\ hook'[i].ui = "locked"
    OBVIOUS
  <2>1. HookOK(hook'[i], written')
    BY DEF IInv, HooksOK
  <2> QED BY <2>1, LockedStays DEF HookOK
<1> QED BY <1>1, Inductive, PTL DEF Spec, LockIsTerminal
=============================================================================
