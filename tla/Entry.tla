------------------------------- MODULE Entry -------------------------------
(***************************************************************************)
(* How one gets into the questionnaire, and what is left of it: invite     *)
(* links and resume codes (lib/invites, lib/resume, api/session/claim),    *)
(* the session cookie (lib/session, lib/auth), the pages' gates, name and  *)
(* ground rules (lib/respondent), the local mirror a browser keeps while   *)
(* the cookie changes hands, and the cohort's status and deletion          *)
(* (lib/cohort-lifecycle).  One browser with several tabs is modelled:     *)
(* the cookie and the mirror belong to the browser, the page to the tab.   *)
(* The facilitator's requests come from a browser of her own.  The one     *)
(* question stands for all of them; an answer is known by its author.      *)
(***************************************************************************)
EXTENDS Naturals, FiniteSets

CONSTANTS Respondents,  \* the members of the cohort
          Facilitator,  \* the one with is_facilitator
          Nameless,     \* the rows inserted with a blank display name
          NoOne,        \* no respondent
          Tabs,         \* the tabs of the browser
          MaxTries,     \* RESUME_MAX_ATTEMPTS
          Statuses,     \* the statuses the facilitator sets
          MaxCounted    \* bound: the attempts counted in one hour

ASSUME EntryAssumption ==
  /\ Facilitator \in Respondents
  /\ Nameless \subseteq Respondents
  /\ NoOne \notin Respondents
  /\ IsFiniteSet(Tabs)
  /\ Statuses \subseteq {"draft", "open", "closed"}
  /\ MaxTries \in Nat \ {0} /\ MaxCounted \in Nat

VARIABLES person,  \* respondents: name, ground rules, lock
          cohort,  \* cohorts.status, or "gone"
          exports, \* export_events holds a row of the cohort
          stored,  \* answers: whose words are stored under whom
          cookie,  \* the session cookie of the browser
          mirror,  \* the author of the mirror's unsynced entry
          online,  \* navigator.onLine
          tries,   \* resume_code_attempts of this address, this hour
          tab      \* what each tab shows, or its claim; and of whom

server  == <<person, cohort, exports, stored, tries>>
browser == <<cookie, mirror, online, tab>>
vars    == <<server, browser>>

Someone == Respondents \union {NoOne}
Pages   == {"landing", "invalid", "welcome", "rules", "home", "question",
            "review", "done"}

(* What a tab is at while its claim is under way: the attempts are counted *)
(* and found few, or the server has granted it and the answer has yet to   *)
(* arrive.                                                                 *)
Claiming == {"checked", "granted"}

Init ==
  /\ person = [r \in Respondents |->
       [named |-> r \notin Nameless, acked |-> FALSE, locked |-> FALSE]]
  /\ cohort = "open"
  /\ exports = FALSE
  /\ stored = [r \in Respondents |-> NoOne]
  /\ cookie = NoOne
  /\ mirror = NoOne
  /\ online = TRUE
  /\ tries = 0
  /\ tab = [t \in Tabs |-> [page |-> "landing", by |-> NoOne, dirty |-> FALSE]]

-----------------------------------------------------------------------------
(* resolveSession: a cookie is good as long as its respondent exists.      *)
Known(c) == c # NoOne /\ cohort # "gone"

(* The gates of the pages: which one the server renders when `to` is       *)
(* asked for under the cookie c.                                           *)
HomeOf(c) == CASE ~person[c].acked -> "rules"
               [] person[c].acked /\ person[c].locked -> "done"
               [] OTHER -> "home"

\* Mutant of Rendered: the ground rules are not asked for.
MutRendered(to, c) ==
  CASE ~Known(c) -> "landing"
    [] Known(c) /\ to = "welcome" -> "welcome"
    [] Known(c) /\ to \in {"question", "review"} /\ ~person[c].locked -> to
    [] OTHER -> HomeOf(c)

Rendered(to, c) ==
  CASE ~Known(c) -> "landing"
    [] Known(c) /\ to = "welcome" -> "welcome"
    [] Known(c) /\ to \in {"question", "review"}
         /\ ~person[c].locked /\ person[c].acked -> to
    [] OTHER -> HomeOf(c)

(* claimLanding: name, then ground rules, then home.                       *)
Landing(r) == CASE ~person[r].named -> "welcome"
                [] person[r].named /\ ~person[r].acked -> "rules"
                [] OTHER -> "home"

Show(t, page, c) ==
  tab' = [tab EXCEPT ![t] = [page |-> page, dirty |-> FALSE,
                             by |-> IF page \in {"question", "granted"} THEN c ELSE NoOne]]

(* A tab asks the server for a page: a link, the address bar, a reload.    *)
Open(t, to) ==
  /\ online /\ tab[t].page \notin Claiming
  /\ Show(t, Rendered(to, cookie), cookie)
  /\ UNCHANGED <<server, cookie, mirror, online>>

-----------------------------------------------------------------------------
(* POST /api/session/claim with the invite token of r, from the link's own *)
(* page or pasted on the landing: an open cohort only (nothing in the      *)
(* program revokes or replaces a token).                                   *)
ClaimLink(t, r) ==
  /\ online /\ tab[t].page \notin Claiming
  /\ IF cohort = "open" THEN Show(t, "granted", r) ELSE Show(t, "invalid", NoOne)
  /\ UNCHANGED <<server, cookie, mirror, online>>

\* Mutant of ResumeCheck: the limit is noticed one attempt late.
MutResumeCheck(t) ==
  /\ online /\ tab[t].page = "landing"
  /\ Show(t, IF tries <= MaxTries THEN "checked" ELSE "landing", NoOne)
  /\ UNCHANGED <<server, cookie, mirror, online>>

(* ... with a resume code: the attempts of the last hour are counted first *)
ResumeCheck(t) ==
  /\ online /\ tab[t].page = "landing"
  /\ Show(t, IF tries < MaxTries THEN "checked" ELSE "landing", NoOne)
  /\ UNCHANGED <<server, cookie, mirror, online>>

(* ... then this one is recorded, in a statement of its own, and the code  *)
(* is looked up, whatever the cohort's status; r is NoOne for a code that  *)
(* nobody has.                                                             *)
ResumeResolve(t, r) ==
  /\ tab[t].page = "checked" /\ tries < MaxCounted
  /\ tries' = tries + 1
  /\ IF Known(r) THEN Show(t, "granted", r) ELSE Show(t, "landing", NoOne)
  /\ UNCHANGED <<person, cohort, exports, stored, cookie, mirror, online>>

(* The oldest attempt leaves the rolling hour.                             *)
AttemptAges ==
  /\ tries > 0
  /\ tries' = tries - 1
  /\ UNCHANGED <<person, cohort, exports, stored, browser>>

(* The answer arrives: the cookie is replaced for every tab, this tab      *)
(* follows the destination.                                                *)
ClaimArrives(t) ==
  LET r == tab[t].by
  IN  /\ tab[t].page = "granted"
      /\ cookie' = r
      /\ Show(t, Rendered(Landing(r), r), r)
      /\ UNCHANGED <<server, mirror, online>>

-----------------------------------------------------------------------------
(* WelcomeForm, PATCH /api/respondent/self: the row of the cookie at the   *)
(* time, not of the one the page was rendered to.                          *)
SubmitName(t) ==
  /\ online /\ tab[t].page = "welcome" /\ Known(cookie)
  /\ person' = [person EXCEPT ![cookie].named = TRUE]
  /\ Show(t, Rendered("rules", cookie), cookie)
  /\ UNCHANGED <<cohort, exports, stored, tries, cookie, mirror, online>>

(* GroundRulesForm, POST .../ground-rules.                                 *)
Acknowledge(t) ==
  /\ online /\ tab[t].page = "rules" /\ Known(cookie)
  /\ person' = [person EXCEPT ![cookie].acked = TRUE]
  /\ Show(t, IF person[cookie].locked THEN "done" ELSE "home", cookie)
  /\ UNCHANGED <<cohort, exports, stored, tries, cookie, mirror, online>>

(* The question screen: typing mirrors at once ...                         *)
Type(t) ==
  /\ tab[t].page = "question"
  /\ tab' = [tab EXCEPT ![t].dirty = TRUE]
  /\ mirror' = tab[t].by
  /\ UNCHANGED <<server, cookie, online>>

Writable(c) == Known(c) /\ cohort = "open" /\ ~person[c].locked

(* ... and PATCH /api/answers stores it under the cookie.                  *)
Save(t) ==
  /\ online /\ tab[t].dirty /\ Writable(cookie)
  /\ stored' = [stored EXCEPT ![cookie] = tab[t].by]
  /\ tab' = [tab EXCEPT ![t].dirty = FALSE]
  /\ mirror' = NoOne
  /\ UNCHANGED <<person, cohort, exports, tries, cookie, online>>

GoOffline ==
  /\ online
  /\ online' = FALSE
  /\ UNCHANGED <<server, cookie, mirror, tab>>

(* The question screens that saw the connection go drain the mirror; no    *)
(* page is opened without a connection, so they are the ones that are open *)
BackOnline ==
  /\ ~online
  /\ online' = TRUE
  /\ IF (\E t \in Tabs : tab[t].page = "question") /\ mirror # NoOne /\ Writable(cookie)
       THEN /\ stored' = [stored EXCEPT ![cookie] = mirror]
            /\ mirror' = NoOne
       ELSE UNCHANGED <<stored, mirror>>
  /\ UNCHANGED <<person, cohort, exports, tries, cookie, tab>>

(* ReviewScreen, POST /api/submit.  The mirror is left as it is.           *)
Submit(t) ==
  /\ online /\ tab[t].page = "review" /\ Writable(cookie)
  /\ person' = [person EXCEPT ![cookie].locked = TRUE]
  /\ Show(t, IF person[cookie].acked THEN "done" ELSE "rules", cookie)
  /\ UNCHANGED <<cohort, exports, stored, tries, cookie, mirror, online>>

-----------------------------------------------------------------------------
\* Mutant of Admin: the facilitator's own lock is not asked for.
MutAdmin == cohort # "gone"

(* requireAdminSession, for the facilitator's own session.                 *)
Admin == cohort # "gone" /\ person[Facilitator].locked

SetStatus(s) ==
  /\ Admin
  /\ cohort' = s
  /\ UNCHANGED <<person, exports, stored, tries, browser>>

Unlock(r) ==
  /\ Admin /\ person[r].locked
  /\ person' = [person EXCEPT ![r].locked = FALSE]
  /\ UNCHANGED <<cohort, exports, stored, tries, browser>>

(* GET /api/admin/export with the private notes records itself.            *)
ExportPrivate ==
  /\ Admin
  /\ exports' = TRUE
  /\ UNCHANGED <<person, cohort, stored, tries, browser>>

(* DELETE /api/admin/cohort with the cohort's name: app_delete_cohort      *)
(* empties its tables, then the members and the cohort.  It knows nothing  *)
(* of export_events, whose rows reference both and make it fail as a       *)
(* whole; a save that slips in between two of its statements does too, so  *)
(* that it may also do nothing.  What analysis_outputs holds stays.        *)
DeleteCohort ==
  /\ Admin /\ ~exports
  /\ cohort' = "gone"
  /\ UNCHANGED <<person, exports, stored, tries, browser>>

Next ==
  \/ \E t \in Tabs :
       \/ \E to \in {"home", "welcome", "rules", "question", "review"} : Open(t, to)
       \/ \E r \in Respondents : ClaimLink(t, r)
       \/ \E r \in Someone : ResumeResolve(t, r)
       \/ ResumeCheck(t) \/ ClaimArrives(t)
       \/ SubmitName(t) \/ Acknowledge(t)
       \/ Type(t) \/ Save(t) \/ Submit(t)
  \/ AttemptAges \/ GoOffline \/ BackOnline
  \/ \E s \in Statuses : SetStatus(s)
  \/ \E r \in Respondents : Unlock(r)
  \/ ExportPrivate \/ DeleteCohort

Spec == Init /\ [][Next]_vars

-----------------------------------------------------------------------------
(* Every variable is of its kind.                                          *)
TypeOK ==
  /\ person \in [Respondents ->
       [named : BOOLEAN, acked : BOOLEAN, locked : BOOLEAN]]
  /\ cohort \in {"draft", "open", "closed", "gone"}
  /\ exports \in BOOLEAN
  /\ stored \in [Respondents -> Someone]
  /\ {cookie, mirror} \subseteq Someone
  /\ online \in BOOLEAN
  /\ tries \in Nat
  /\ tab \in [Tabs -> [page : Pages \union Claiming, by : Someone,
                       dirty : BOOLEAN]]

(* The words stored anywhere are those of someone who has acknowledged the *)
(* ground rules: the gate of the pages keeps everyone else from typing,    *)
(* whichever cookie the save travels under, and though PATCH /api/answers  *)
(* itself does not ask.                                                    *)
RulesBeforeWords ==
  \A r \in Respondents : stored[r] # NoOne => person[stored[r]].acked

(* The hour holds no more attempts than the limit and one for each other   *)
(* request that was between its check and its record.                      *)
RateHolds ==
  tries + Cardinality({t \in Tabs : tab[t].page = "checked"})
    <= MaxTries + Cardinality(Tabs) - 1

(* Once the facilitator is unlocked while the cohort is not open, nobody   *)
(* can open it or lock her again: the admin gate wants her lock, and the   *)
(* lock wants an open cohort.                                              *)
Stranded == cohort \in {"draft", "closed"} /\ ~person[Facilitator].locked
StrandedForGood == [][Stranded => Stranded']_vars

(* lib/local-mirror: submit empties the mirror, so that the browser holds  *)
(* no answer of someone who has submitted there.                           *)
SubmitEmptiesMirror ==
  [][\A r \in Respondents :
       person'[r].locked /\ ~person[r].locked => mirror' = NoOne]_vars
=============================================================================
