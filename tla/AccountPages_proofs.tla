------------------------- MODULE AccountPages_proofs -------------------------
(***************************************************************************)
(* Proofs about signing in and the pages of an account, for any number of  *)
(* tabs, accounts, sign-ins and failures.                                  *)
(***************************************************************************)
EXTENDS AccountPages, TLAPS

USE SignInAssumption, AuthAssumption, AccountAssumption

-----------------------------------------------------------------------------
(* The inductive invariants of the sign-in.                                *)

(* The three cookies are of one start, the newest, and name the tab that   *)
(* has it under way.                                                       *)
JarFits ==
  /\ jar.verifier = jar.state
  /\ jar.state \in {0, starts}
  /\ jar.state # 0 => jar.next \in Tabs /\ start[jar.next] = jar.state

(* No two tabs have the same start, and a tab that is away has one.        *)
StartsDiffer ==
  /\ \A t \in Tabs : start[t] <= starts
  /\ \A s, t \in Tabs : start[s] = start[t] /\ start[s] # 0 => s = t
  /\ \A t \in Tabs : at[t] # "page" => start[t] # 0

(* A start whose cookies are not in the jar has lost them for a reason.    *)
LossesExplained ==
  \A f \in 1..starts : f # jar.state => lost[f] # "kept"

-----------------------------------------------------------------------------
(* The inductive invariants of the pages.                                  *)

(* The party size goes with the travel type, unless that is not listed.    *)
Matched(row) ==
  \/ row["partySize"] = row["travelType"]
  \/ row["travelType"] \in Unmatched /\ row["partySize"] = "default"

(* A form still has what it was given, or what was typed since; only the   *)
(* party size of a travel type that is not listed goes.                    *)
Stems(fields, loaded) ==
  \A f \in Fields : \/ fields[f] \in {loaded[f], "typed"}
                    \/ f = "partySize" /\ loaded[f] \in Unmatched

-----------------------------------------------------------------------------
(* Signing in.  Nothing but these steps touches its variables.             *)
SignInNext == (\E t \in Tabs : SignInStep(t)) \/ HandoffExpires \/ SessionExpires

(* The pages leave the sign-in alone.                                      *)
LEMMA SignInOnly ==
  ASSUME [Next]_vars
  PROVE  [SignInNext]_signInVars
<1>1. Signing => SignInNext
  BY DEF Signing, SignInNext
<1>2. ASSUME NEW u \in People, Rename(u) PROVE UNCHANGED signInVars
  BY <1>2 DEF Rename
<1>3. ASSUME NEW t \in Tabs, NEW p \in Pages, Open(t, p) PROVE UNCHANGED signInVars
  BY <1>3 DEF Open
<1>4. ASSUME NEW t \in Tabs, NEW o \in Ops, Serve(t, o) \/ Fails(t, o) PROVE UNCHANGED signInVars
  BY <1>4 DEF Serve, Fails
<1>5. ASSUME NEW t \in Tabs, MeArrives(t) \/ LoadArrives(t) PROVE UNCHANGED signInVars
  BY <1>5 DEF MeArrives, LoadArrives
<1>6. ASSUME NEW t \in Tabs, NEW f \in {"budget", "travelType"}, Edit(t, f)
      PROVE  UNCHANGED signInVars
  BY <1>6 DEF Edit
<1>7. ASSUME NEW t \in Tabs, Save(t) \/ SaveArrives(t) PROVE UNCHANGED signInVars
  BY <1>7 DEF Save, SaveArrives
<1>8. ASSUME NEW t \in Tabs, NEW o \in {"demographics", "again"}, Check(t, o) \/ PrefsArrive(t, o)
      PROVE  UNCHANGED signInVars
  BY <1>8 DEF Check, PrefsArrive
<1>9. ASSUME NEW t \in Tabs, Uncheck(t) PROVE UNCHANGED signInVars
  BY <1>9 DEF Uncheck
<1>10. UNCHANGED vars => UNCHANGED signInVars
  BY DEF vars
<1> QED
  BY <1>1, <1>2, <1>3, <1>4, <1>5, <1>6, <1>7, <1>8, <1>9, <1>10 DEF Next

(* The type invariant of the sign-in.                                      *)
LEMMA SignInTyped ==
  ASSUME SignInTypeOK, StartsDiffer, [SignInNext]_signInVars
  PROVE  SignInTypeOK'
<1> USE DEF SignInTypeOK, Go, Starts, Places, Errors
<1>1. ASSUME NEW t \in Tabs, Start(t) PROVE SignInTypeOK'
  <2>1. starts + 1 \in Starts /\ starts' \in Starts
    BY <1>1 DEF Start
  <2>2. jar' \in [session : Users \cup {None}, verifier : {0} \cup Starts,
                  state : {0} \cup Starts, next : Tabs \cup {None}]
    BY <1>1, <2>1 DEF Start, Handoff
  <2>3. lost' \in [1..MaxStarts -> Reasons]
    BY <1>1 DEF Start, Lose, Reasons
  <2> QED
    BY <1>1, <2>1, <2>2, <2>3 DEF Start
<1>2. ASSUME NEW t \in Tabs, StartLocally(t) PROVE SignInTypeOK'
  BY <1>2 DEF StartLocally
<1>3. ASSUME NEW t \in Tabs, NEW u \in Users, Consent(t, u) PROVE SignInTypeOK'
  BY <1>3 DEF Consent
<1>4. ASSUME NEW t \in Tabs, Decline(t) PROVE SignInTypeOK'
  BY <1>4 DEF Decline
<1>5. ASSUME NEW t \in Tabs, CallbackIncomplete(t) PROVE SignInTypeOK'
  BY <1>5 DEF CallbackIncomplete
<1>6. ASSUME NEW t \in Tabs, CallbackMismatch(t) PROVE SignInTypeOK'
  BY <1>6 DEF CallbackMismatch, RefusedCookies
<1>7. ASSUME NEW t \in Tabs, CallbackAccepted(t) PROVE SignInTypeOK'
  BY <1>7 DEF CallbackAccepted
<1>8. ASSUME NEW t \in Tabs, Exchanged(t) PROVE SignInTypeOK'
  <2>1. start[t] \in Starts /\ consented[start[t]] \in Users \cup {None}
    BY <1>8 DEF Exchanged, StartsDiffer
  <2>2. jar' \in [session : Users \cup {None}, verifier : {0} \cup Starts,
                  state : {0} \cup Starts, next : Tabs \cup {None}]
    BY <1>8, <2>1 DEF Exchanged, Emptied
  <2> QED
    BY <1>8, <2>2 DEF Exchanged, Lose, Reasons
<1>9. ASSUME NEW t \in Tabs, ExchangeFails(t) PROVE SignInTypeOK'
  BY <1>9 DEF ExchangeFails
<1>10. ASSUME NEW t \in Tabs, SignOut(t) PROVE SignInTypeOK'
  BY <1>10 DEF SignOut, Emptied, Lose, Reasons
<1>11. ASSUME HandoffExpires PROVE SignInTypeOK'
  BY <1>11 DEF HandoffExpires, Emptied, Lose, Reasons
<1>12. ASSUME SessionExpires PROVE SignInTypeOK'
  BY <1>12 DEF SessionExpires
<1>13. ASSUME UNCHANGED signInVars PROVE SignInTypeOK'
  BY <1>13 DEF signInVars
<1> QED
  BY <1>1, <1>2, <1>3, <1>4, <1>5, <1>6, <1>7, <1>8, <1>9, <1>10, <1>11, <1>12, <1>13
     DEF SignInNext, SignInStep

(* Everything but a new start leaves the starts alone, and a tab comes     *)
(* back from Cognito only with the one that it went with.                  *)
LEMMA StartsStep ==
  ASSUME SignInTypeOK, StartsDiffer, [SignInNext]_signInVars
  PROVE  StartsDiffer'
<1> USE DEF SignInTypeOK, Go, Starts, StartsDiffer, Errors
<1>1. ASSUME NEW t \in Tabs, Start(t) PROVE StartsDiffer'
  BY <1>1 DEF Start
<1>2. ASSUME UNCHANGED <<start, starts>>,
             \A t \in Tabs : at'[t] # at[t] => at[t] # "page" \/ at'[t] = "page"
      PROVE  StartsDiffer'
  BY <1>2
<1>3. ASSUME SignInNext, \A t \in Tabs : ~Start(t)
      PROVE  /\ UNCHANGED <<start, starts>>
             /\ \A t \in Tabs : at'[t] # at[t] => at[t] # "page" \/ at'[t] = "page"
  BY <1>3 DEF SignInNext, SignInStep, StartLocally, Consent, Decline, CallbackIncomplete,
       CallbackMismatch, CallbackAccepted, Exchanged, ExchangeFails, SignOut, HandoffExpires,
       SessionExpires
<1>4. CASE UNCHANGED signInVars
  BY <1>2, <1>4 DEF signInVars
<1> QED
  BY <1>1, <1>2, <1>3, <1>4

(* The cookies go together and come together.                              *)
LEMMA JarStep ==
  ASSUME SignInTypeOK, StartsDiffer, JarFits, [SignInNext]_signInVars
  PROVE  JarFits'
<1> USE DEF SignInTypeOK, Starts, JarFits
<1>1. ASSUME NEW t \in Tabs, Start(t) PROVE JarFits'
  <2>1. /\ jar'.verifier = starts + 1 /\ jar'.state = starts + 1 /\ jar'.next = t
        /\ starts' = starts + 1 /\ start'[t] = starts + 1
    BY <1>1 DEF Start, Handoff
  <2> QED
    BY <2>1
<1>2. ASSUME UNCHANGED <<start, starts>>,
             \/ jar'.verifier = 0 /\ jar'.state = 0
             \/ /\ jar'.verifier = jar.verifier /\ jar'.state = jar.state
                /\ jar'.next = jar.next
      PROVE  JarFits'
  BY <1>2
<1>3. ASSUME SignInNext, \A t \in Tabs : ~Start(t)
      PROVE  /\ UNCHANGED <<start, starts>>
             /\ \/ jar'.verifier = 0 /\ jar'.state = 0
                \/ /\ jar'.verifier = jar.verifier /\ jar'.state = jar.state
                   /\ jar'.next = jar.next
  BY <1>3 DEF SignInNext, SignInStep, StartLocally, Consent, Decline, CallbackIncomplete,
       CallbackMismatch, CallbackAccepted, Exchanged, ExchangeFails, SignOut, HandoffExpires,
       SessionExpires, Emptied, RefusedCookies
<1>4. CASE UNCHANGED signInVars
  BY <1>2, <1>4 DEF signInVars
<1> QED
  BY <1>1, <1>2, <1>3, <1>4

(* Cookies that leave the jar leave it for a reason.                       *)
LEMMA LossesStep ==
  ASSUME SignInTypeOK, JarFits, LossesExplained, [SignInNext]_signInVars
  PROVE  LossesExplained'
<1> USE DEF SignInTypeOK, Starts, JarFits, LossesExplained
<1>1. ASSUME NEW t \in Tabs, Start(t) PROVE LossesExplained'
  <2>1. jar'.state = starts + 1 /\ starts' = starts + 1
    BY <1>1 DEF Start, Handoff
  <2>2. ASSUME NEW f \in 1..starts PROVE lost'[f] # "kept"
    <3>1. lost'[f] = IF f = jar.state THEN "overwritten" ELSE lost[f]
      BY <1>1, <2>2 DEF Start, Lose
    <3> QED
      BY <3>1
  <2> QED
    BY <2>1, <2>2
<1>2. ASSUME NEW reason \in {"completed", "signedOut", "expired"}, Lose(reason), starts' = starts
      PROVE  LossesExplained'
  <2>1. ASSUME NEW f \in 1..starts PROVE lost'[f] # "kept"
    <3>1. lost'[f] = IF f = jar.state THEN reason ELSE lost[f]
      BY <1>2, <2>1 DEF Lose
    <3> QED
      BY <3>1
  <2> QED
    BY <1>2, <2>1
<1>3. ASSUME jar'.state = jar.state, UNCHANGED <<starts, lost>>
      PROVE  LossesExplained'
  BY <1>3
<1>4. ASSUME NEW t \in Tabs, Exchanged(t) \/ SignOut(t) PROVE LossesExplained'
  BY <1>2, <1>4 DEF Exchanged, SignOut
<1>5. CASE HandoffExpires
  BY <1>2, <1>5 DEF HandoffExpires
<1>6. ASSUME NEW t \in Tabs, SignInStep(t), ~Start(t), ~Exchanged(t), ~SignOut(t)
      PROVE  jar'.state = jar.state /\ UNCHANGED <<starts, lost>>
  BY <1>6 DEF SignInStep, StartLocally, Consent, Decline, CallbackIncomplete,
       CallbackMismatch, CallbackAccepted, ExchangeFails, RefusedCookies
<1>7. CASE SessionExpires
  BY <1>3, <1>7 DEF SessionExpires
<1>8. CASE UNCHANGED signInVars
  BY <1>3, <1>8 DEF signInVars
<1> QED
  BY <1>1, <1>3, <1>4, <1>5, <1>6, <1>7, <1>8 DEF SignInNext

(* A callback whose state is the one in the jar brings the verifier and    *)
(* the page of its own start.                                              *)
LEMMA ExchangeStep ==
  ASSUME SignInTypeOK, StartsDiffer, JarFits, ExchangeFitsItsStart, [SignInNext]_signInVars
  PROVE  ExchangeFitsItsStart'
<1> USE DEF SignInTypeOK, Starts, Go, ExchangeFitsItsStart
<1>1. ASSUME NEW t \in Tabs, Start(t) PROVE ExchangeFitsItsStart'
  BY <1>1 DEF Start, Errors
<1>2. ASSUME NEW t \in Tabs, CallbackAccepted(t) PROVE ExchangeFitsItsStart'
  <2>1. jar.verifier = start[t] /\ jar.next = t
    BY <1>2 DEF CallbackAccepted, JarFits, StartsDiffer
  <2> QED
    BY <1>2, <2>1 DEF CallbackAccepted
<1>3. ASSUME UNCHANGED <<start, carried>>, \A t \in Tabs : at'[t] = "exchange" => at[t] = "exchange"
      PROVE  ExchangeFitsItsStart'
  BY <1>3
<1>4. ASSUME NEW t \in Tabs, SignInStep(t), ~Start(t), ~CallbackAccepted(t)
      PROVE  /\ UNCHANGED <<start, carried>>
             /\ \A s \in Tabs : at'[s] = "exchange" => at[s] = "exchange"
  BY <1>4 DEF SignInStep, StartLocally, Consent, Decline, CallbackIncomplete,
       CallbackMismatch, Exchanged, ExchangeFails, SignOut
<1>5. CASE HandoffExpires \/ SessionExpires \/ UNCHANGED signInVars
  BY <1>3, <1>5 DEF HandoffExpires, SessionExpires, signInVars
<1> QED
  BY <1>1, <1>2, <1>3, <1>4, <1>5 DEF SignInNext

(* A reason once given stays, and so does the tab on its error page.       *)
LEMMA FailuresStep ==
  ASSUME SignInTypeOK, StartsDiffer, JarFits, LossesExplained, FailuresAreExplained,
         [SignInNext]_signInVars
  PROVE  FailuresAreExplained'
<1> USE DEF SignInTypeOK, Starts, FailuresAreExplained
<1>1. \A f \in 1..starts : lost[f] # "kept" => lost'[f] # "kept"
  <2>1. \/ lost' = lost
        \/ \E reason \in {"overwritten", "completed", "signedOut", "expired"} : Lose(reason)
    BY DEF SignInNext, SignInStep, Start, StartLocally, Consent, Decline, CallbackIncomplete,
       CallbackMismatch, CallbackAccepted, Exchanged, ExchangeFails, SignOut, HandoffExpires,
       SessionExpires, signInVars
  <2> QED
    BY <2>1 DEF Lose
<1>2. ASSUME NEW t \in Tabs, Start(t) PROVE FailuresAreExplained'
  <2>1. starts' = starts + 1 /\ at'[t] = "cognito"
        /\ \A s \in Tabs \ {t} : at'[s] = at[s] /\ start'[s] = start[s]
    BY <1>2 DEF Start, Go
  <2>2. ASSUME NEW s \in Tabs \ {t}, at[s] \in {"mismatch", "incomplete"}
        PROVE  lost'[start[s]] # "kept"
    BY <1>1, <2>2 DEF StartsDiffer
  <2> QED
    BY <2>1, <2>2
<1>3. ASSUME NEW t \in Tabs, CallbackIncomplete(t) \/ CallbackMismatch(t)
      PROVE  FailuresAreExplained'
  <2>1. /\ start[t] \in 1..starts /\ jar.state # start[t]
        /\ at[t] = "back" /\ UNCHANGED <<start, starts>>
        /\ \A s \in Tabs \ {t} : at'[s] = at[s]
        /\ at'[t] \in {"mismatch", "incomplete"}
    BY <1>3 DEF CallbackIncomplete, CallbackMismatch, Go, StartsDiffer, JarFits
  <2>2. lost[start[t]] # "kept" /\ lost'[start[t]] # "kept"
    BY <1>1, <2>1 DEF LossesExplained
  <2>3. at'[t] = "mismatch" => start[t] < starts
    BY <1>3, <2>1 DEF CallbackIncomplete, CallbackMismatch, Go, JarFits
  <2>4. ASSUME NEW s \in Tabs \ {t}, at[s] \in {"mismatch", "incomplete"}
        PROVE  lost'[start[s]] # "kept"
    BY <1>1, <2>4 DEF StartsDiffer
  <2> QED
    BY <2>1, <2>2, <2>3, <2>4
<1>4. ASSUME UNCHANGED <<start, starts>>,
             \A t \in Tabs : at'[t] \in {"mismatch", "incomplete"} => at'[t] = at[t]
      PROVE  FailuresAreExplained'
  BY <1>1, <1>4 DEF StartsDiffer
<1>5. ASSUME NEW t \in Tabs, SignInStep(t), ~Start(t), ~CallbackIncomplete(t), ~CallbackMismatch(t)
      PROVE  /\ UNCHANGED <<start, starts>>
             /\ \A s \in Tabs : at'[s] \in {"mismatch", "incomplete"} => at'[s] = at[s]
  BY <1>5 DEF SignInStep, StartLocally, Consent, Decline, CallbackAccepted, Exchanged,
       ExchangeFails, SignOut, Go
<1>6. CASE HandoffExpires \/ SessionExpires \/ UNCHANGED signInVars
  BY <1>4, <1>6 DEF HandoffExpires, SessionExpires, signInVars
<1> QED
  BY <1>2, <1>3, <1>4, <1>5, <1>6 DEF SignInNext

-----------------------------------------------------------------------------
(* The pages, tab by tab.                                                  *)
Calls == [leg : {"idle", "sent", "answered"}, as : Users \cup {None},
          answer : Answers, row : Rows, loaded : Rows]

PageRecords == [load : {"pending", "ok", "failed"}, loaded : Rows, fields : Rows,
                checked : BOOLEAN]

TabTyped(t) ==
  /\ showing[t] \in Pages \cup {"closed"}
  /\ who[t] \in Users \cup {None}
  /\ call[t] \in [Ops -> Calls]
  /\ page[t] \in PageRecords

(* What a tab does by itself, and what that leaves alone.                  *)
Works(t) ==
  \/ SignInStep(t) /\ Leaves(t) /\ UNCHANGED authVars
  \/ \E p \in Pages : Open(t, p)
  \/ \E o \in Ops : Serve(t, o) \/ Fails(t, o)
  \/ MeArrives(t) \/ LoadArrives(t)
  \/ \E f \in {"budget", "travelType"} : Edit(t, f)
  \/ Save(t) \/ SaveArrives(t)
  \/ \E o \in {"demographics", "again"} : Check(t, o) \/ PrefsArrive(t, o)
  \/ Uncheck(t)

OneTab(t) ==
  /\ showing' = [showing EXCEPT ![t] = showing'[t]]
  /\ who' = [who EXCEPT ![t] = who'[t]]
  /\ call' = [call EXCEPT ![t] = call'[t]]
  /\ page' = [page EXCEPT ![t] = page'[t]]

(* A step is one of a tab, or touches no page.                             *)
LEMMA StepCases ==
  ASSUME [Next]_vars
  PROVE  \/ \E t \in Tabs : Works(t)
         \/ UNCHANGED pageVars /\ (UNCHANGED authVars \/ \E u \in People : PatchProfile(u))
BY DEF Next, vars, Works, Signing, Rename

(* The parts of the type invariant, tab by tab and back.                   *)
LEMMA TypeSplit ==
  TypeOK <=> /\ SignInTypeOK /\ AuthTypeOK
             /\ showing \in [Tabs -> Pages \cup {"closed"}]
             /\ who \in [Tabs -> Users \cup {None}]
             /\ call \in [Tabs -> [Ops -> Calls]]
             /\ page \in [Tabs -> PageRecords]
             /\ edits \in 0..MaxEdits /\ troubles \in 0..MaxTroubles
BY DEF TypeOK, Calls, PageRecords

(* Every step of a tab is one of that tab only.                            *)
LEMMA Frame ==
  ASSUME TypeOK, NEW t \in Tabs, Works(t)
  PROVE  OneTab(t)
<1> USE TypeSplit DEF OneTab
<1>1. CASE Leaves(t)
  BY <1>1 DEF Leaves
<1>2. ASSUME NEW p \in Pages, Open(t, p) PROVE OneTab(t)
  BY <1>2 DEF Open
<1>3. ASSUME NEW o \in Ops, Serve(t, o) \/ Fails(t, o) PROVE OneTab(t)
  <2>1. UNCHANGED <<showing, who, page>>
    BY <1>3 DEF Serve, Fails
  <2>2. \E answer, row : Answer(t, o, answer, row)
    BY <1>3 DEF Serve, Fails
  <2> QED
    BY <2>1, <2>2 DEF Answer
<1>4. CASE MeArrives(t)
  BY <1>4 DEF MeArrives, Heard
<1>5. CASE LoadArrives(t)
  <2>1. UNCHANGED <<showing, who>> /\ call' = Heard(t, {"companion", "demographics"})
    BY <1>5 DEF LoadArrives
  <2>2. \E p : page' = [page EXCEPT ![t] = p]
    BY <1>5 DEF LoadArrives
  <2> QED
    BY <2>1, <2>2 DEF Heard
<1>6. ASSUME NEW f, Edit(t, f) PROVE OneTab(t)
  BY <1>6 DEF Edit
<1>7. CASE Save(t)
  BY <1>7 DEF Save
<1>8. CASE SaveArrives(t)
  BY <1>8 DEF SaveArrives, Heard
<1>9. ASSUME NEW o \in {"demographics", "again"}, Check(t, o) PROVE OneTab(t)
  BY <1>9 DEF Check
<1>10. ASSUME NEW o \in {"demographics", "again"}, PrefsArrive(t, o) PROVE OneTab(t)
  <2>1. UNCHANGED <<showing, who>> /\ call' = Heard(t, {o})
    BY <1>10 DEF PrefsArrive
  <2>2. \E p : page' = [page EXCEPT ![t] = p]
    BY <1>10 DEF PrefsArrive
  <2> QED
    BY <2>1, <2>2 DEF Heard
<1>11. CASE Uncheck(t)
  BY <1>11 DEF Uncheck
<1> QED
  BY <1>1, <1>2, <1>3, <1>4, <1>5, <1>6, <1>7, <1>8, <1>9, <1>10, <1>11 DEF Works

(* The requests and the rows that pages begin with.                        *)
LEMMA Beginnings ==
  ASSUME SignInTypeOK
  PROVE  /\ Nothing \in Rows /\ Idle \in Calls /\ Sent \in Calls /\ Blank \in PageRecords
         /\ Idle.leg = "idle" /\ Idle.answer = "none" /\ Idle.row = Nothing
         /\ Sent.leg = "sent" /\ Sent.answer = "none" /\ Sent.row = Nothing
         /\ Blank.fields = Nothing /\ Blank.loaded = Nothing /\ Blank.checked = FALSE
<1>1. Nothing \in Rows
  BY DEF Nothing, Rows, Values
<1>2. jar.session \in Users \cup {None}
  BY DEF SignInTypeOK
<1>3. Idle \in Calls /\ Sent \in Calls
  BY <1>1, <1>2 DEF Idle, Sent, Calls, Answers
<1>4. Blank \in PageRecords
  BY <1>1 DEF Blank, PageRecords
<1> QED
  BY <1>1, <1>3, <1>4 DEF Idle, Sent, Blank

(* An answer changes what it says and nothing else.                        *)
LEMMA Answered ==
  ASSUME call \in [Tabs -> [Ops -> Calls]], NEW t \in Tabs, NEW o \in Ops,
         NEW answer \in Answers, NEW row \in Rows, Answer(t, o, answer, row)
  PROVE  /\ call'[t] \in [Ops -> Calls]
         /\ call'[t][o].leg = "answered" /\ call'[t][o].answer = answer
         /\ call'[t][o].row = row
         /\ call'[t][o].as = call[t][o].as /\ call'[t][o].loaded = call[t][o].loaded
         /\ \A q \in Ops \ {o} : call'[t][q] = call[t][q]
<1> DEFINE c == [call[t][o] EXCEPT !.leg = "answered", !.answer = answer, !.row = row]
<1>1. call[t][o] \in Calls
  OBVIOUS
<1>2. /\ c.leg = "answered" /\ c.answer = answer /\ c.row = row
      /\ c.as = call[t][o].as /\ c.loaded = call[t][o].loaded /\ c \in Calls
  BY <1>1 DEF Calls
<1>3. call' = [call EXCEPT ![t][o] = c]
  BY DEF Answer
<1> HIDE DEF c
<1>4. call'[t] = [call[t] EXCEPT ![o] = c]
  BY <1>3
<1>5. call'[t] \in [Ops -> Calls] /\ call'[t][o] = c /\ \A q \in Ops \ {o} : call'[t][q] = call[t][q]
  BY <1>2, <1>4
<1> QED
  BY <1>2, <1>5

(* The answers that a page has heard are gone.                             *)
LEMMA HeardCalls ==
  ASSUME TypeOK, NEW t \in Tabs, NEW ops \in SUBSET Ops, call' = Heard(t, ops)
  PROVE  /\ call'[t] \in [Ops -> Calls]
         /\ \A o \in Ops : call'[t][o] = IF o \in ops THEN Idle ELSE call[t][o]
BY TypeSplit, Beginnings DEF Heard

(* Rows stay rows.                                                         *)
LEMMA RowsTyped ==
  ASSUME NEW row \in Rows
  PROVE  /\ Prefilled(row) \in Rows
         /\ \A f \in {"budget", "travelType"} : Typed(row, f) \in Rows
BY DEF Rows, Fields, Values, Prefilled, Typed

(* What the service answers of a user.                                     *)
LEMMA DemographicsTyped ==
  ASSUME AuthTypeOK, NEW u \in Users
  PROVE  Demographics(u) \in Rows
BY DEF AuthTypeOK, Demographics, Nothing, Rows, Values

(* How a request is served.                                                *)
LEMMA Served ==
  ASSUME TypeOK, NEW t \in Tabs, NEW o \in Ops, Serve(t, o) \/ Fails(t, o)
  PROVE  \E answer \in Answers, row \in Rows :
           /\ Answer(t, o, answer, row)
           /\ row \in {Nothing, call[t][o].row}
              \/ \E u \in Users : row = Demographics(u)
           /\ answer # "none"
<1> USE TypeSplit
<1>1. Nothing \in Rows /\ call[t][o] \in Calls
  BY Beginnings
<1>2. CASE Fails(t, o)
  BY <1>1, <1>2 DEF Fails, Answers
<1>3. CASE Serve(t, o)
  <2> DEFINE u == call[t][o].as
  <2>1. u \in Users \cup {None} /\ call[t][o].row \in Rows
    BY <1>1 DEF Calls
  <2>2. CASE Answer(t, o, "failed", Nothing) \/ Answer(t, o, "ok", Nothing) \/ Answer(t, o, "404", Nothing)
    BY <1>1, <2>2 DEF Answers
  <2>3. CASE Answer(t, o, "ok", call[t][o].row)
    BY <2>1, <2>3 DEF Answers
  <2>4. CASE u # None /\ Answer(t, o, "ok", Demographics(u))
    BY <2>1, <2>4, DemographicsTyped DEF Answers
  <2> QED
    BY <1>3, <2>2, <2>3, <2>4 DEF Serve
<1> QED
  BY <1>2, <1>3

(* Whatever a tab does, its page and its requests keep their types.        *)
LEMMA TabTypedStep ==
  ASSUME TypeOK, NEW t \in Tabs, Works(t)
  PROVE  TabTyped(t)'
<1> USE TypeSplit DEF TabTyped
<1>1. /\ showing[t] \in Pages \cup {"closed"} /\ who[t] \in Users \cup {None}
      /\ call[t] \in [Ops -> Calls] /\ page[t] \in PageRecords
  OBVIOUS
<1>2. CASE Leaves(t)
  BY <1>2, Beginnings DEF Leaves
<1>3. ASSUME NEW p \in Pages, Open(t, p) PROVE TabTyped(t)'
  BY <1>3, Beginnings DEF Open
<1>4. ASSUME NEW o \in Ops, Serve(t, o) \/ Fails(t, o) PROVE TabTyped(t)'
  <2>1. UNCHANGED <<showing, who, page>>
    BY <1>4 DEF Serve, Fails
  <2>2. call'[t] \in [Ops -> Calls]
    BY <1>4, Served, Answered
  <2> QED
    BY <1>1, <2>1, <2>2
<1>5. CASE MeArrives(t)
  <2>1. call'[t] \in [Ops -> Calls]
    BY <1>5, HeardCalls DEF MeArrives, Ops
  <2>2. call[t]["me"].as \in Users \cup {None}
    BY DEF Calls, Ops
  <2> QED
    BY <1>1, <1>5, <2>1, <2>2 DEF MeArrives
<1>6. CASE LoadArrives(t)
  <2>1. call'[t] \in [Ops -> Calls] /\ UNCHANGED <<showing, who>>
    BY <1>6, HeardCalls DEF LoadArrives, Ops
  <2>2. call[t]["demographics"].row \in Rows
    BY DEF Calls, Ops
  <2>3. page'[t] \in PageRecords
    <3>1. CASE page' = [page EXCEPT ![t].load = "failed"]
      BY <3>1 DEF PageRecords
    <3>2. ASSUME NEW row \in Rows, NEW fields \in Rows,
                 page' = [page EXCEPT ![t] = [@ EXCEPT !.load = "ok", !.loaded = row, !.fields = fields]]
          PROVE  page'[t] \in PageRecords
      BY <3>2 DEF PageRecords
    <3> QED
      BY <1>6, <2>2, <3>1, <3>2, RowsTyped DEF LoadArrives
  <2> QED
    BY <1>1, <2>1, <2>3
<1>7. ASSUME NEW f \in {"budget", "travelType"}, Edit(t, f) PROVE TabTyped(t)'
  <2>1. page[t].fields \in Rows
    BY <1>1 DEF PageRecords
  <2>2. PICK fields \in Rows : page' = [page EXCEPT ![t].fields = fields]
    BY <1>7, <2>1, RowsTyped DEF Edit
  <2>3. page'[t] = [page[t] EXCEPT !.fields = fields]
    BY <2>2
  <2>4. page'[t] \in PageRecords
    BY <1>1, <2>3 DEF PageRecords
  <2> QED
    BY <1>1, <1>7, <2>4 DEF Edit
<1>8. CASE Save(t)
  <2>1. page[t].fields \in Rows /\ page[t].loaded \in Rows
    BY <1>1 DEF PageRecords
  <2>2. [Sent EXCEPT !.row = page[t].fields, !.loaded = page[t].loaded] \in Calls
    BY <2>1, Beginnings DEF Calls
  <2>3. PICK c \in Calls : call' = [call EXCEPT ![t]["put"] = c]
    BY <1>8, <2>2 DEF Save
  <2>4. call'[t] \in [Ops -> Calls]
    <3>1. call'[t] = [call[t] EXCEPT !["put"] = c]
      BY <2>3
    <3> QED
      BY <1>1, <3>1
  <2> QED
    BY <1>1, <1>8, <2>4 DEF Save
<1>9. CASE SaveArrives(t)
  <2>1. who' = who
    BY <1>9 DEF SaveArrives
  <2>2. CASE call' = Heard(t, {"put"}) /\ UNCHANGED <<showing, page>>
    BY <1>1, <2>1, <2>2, HeardCalls DEF Ops
  <2>3. CASE /\ showing' = [showing EXCEPT ![t] = "profile"]
             /\ page' = [page EXCEPT ![t] = Blank]
             /\ call' = [call EXCEPT ![t] = [o \in Ops |->
                  IF o \in Loads("profile") THEN Sent ELSE IF o = "me" THEN call[t][o] ELSE Idle]]
    BY <1>1, <2>1, <2>3, Beginnings DEF Pages
  <2> QED
    BY <1>9, <2>2, <2>3 DEF SaveArrives
<1>10. ASSUME NEW o \in {"demographics", "again"}, Check(t, o) PROVE TabTyped(t)'
  <2>1. call'[t] \in [Ops -> Calls]
    BY <1>10, Beginnings DEF Check, Ops
  <2>2. page'[t] \in PageRecords
    BY <1>10 DEF Check, PageRecords
  <2> QED
    BY <1>1, <1>10, <2>1, <2>2 DEF Check
<1>11. ASSUME NEW o \in {"demographics", "again"}, PrefsArrive(t, o) PROVE TabTyped(t)'
  <2>1. call'[t] \in [Ops -> Calls] /\ UNCHANGED <<showing, who>>
    BY <1>11, HeardCalls DEF PrefsArrive, Ops
  <2>2. call[t][o].row \in Rows
    BY DEF Calls, Ops
  <2>3. page'[t] \in PageRecords
    BY <1>1, <1>11, <2>2 DEF PrefsArrive, Unusable, PageRecords
  <2> QED
    BY <1>1, <2>1, <2>3
<1>12. CASE Uncheck(t)
  <2>1. page'[t] \in PageRecords
    BY <1>12 DEF Uncheck, PageRecords
  <2> QED
    BY <1>1, <1>12, <2>1 DEF Uncheck
<1> QED
  BY <1>2, <1>3, <1>4, <1>5, <1>6, <1>7, <1>8, <1>9, <1>10, <1>11, <1>12 DEF Works

(* The two tables change by /me, PATCH and PUT only, and no row goes.      *)
LEMMA TablesStep ==
  ASSUME TypeOK, [Next]_vars
  PROVE  /\ AuthTypeOK'
         /\ \A u \in People : users[u] # NoRow => users'[u] # NoRow
<1> USE TypeSplit DEF AuthTypeOK
<1>1. ASSUME NEW u \in People, PatchProfile(u)
      PROVE  AuthTypeOK' /\ \A v \in People : users[v] # NoRow => users'[v] # NoRow
  BY <1>1 DEF PatchProfile, Names
<1>2. ASSUME NEW u \in People, NEW named \in BOOLEAN, GetMe(u, named)
      PROVE  AuthTypeOK' /\ \A v \in People : users[v] # NoRow => users'[v] # NoRow
  BY <1>2 DEF GetMe, Upserted, Names
<1>3. ASSUME NEW u \in People, NEW row \in Rows, PutDemographics(u, row)
      PROVE  AuthTypeOK' /\ \A v \in People : users[v] # NoRow => users'[v] # NoRow
  BY <1>3 DEF PutDemographics, HasProfile
<1>4. CASE UNCHANGED authVars
  BY <1>4 DEF authVars
<1>5. ASSUME NEW t \in Tabs, NEW o \in Ops, Serve(t, o)
      PROVE  \/ UNCHANGED authVars
             \/ \E u \in People, named \in BOOLEAN : GetMe(u, named)
             \/ \E u \in People, row \in Rows : PutDemographics(u, row)
  <2>1. call[t][o].as \in Users \cup {None} /\ call[t][o].row \in Rows
    BY DEF Calls
  <2> QED
    BY <1>5, <2>1 DEF Serve
<1>6. ASSUME NEW t \in Tabs, Works(t), \A o \in Ops : ~Serve(t, o)
      PROVE  UNCHANGED authVars
  BY <1>6 DEF Works, Open, Fails, MeArrives, LoadArrives, Edit, Save, SaveArrives, Check,
       PrefsArrive, Uncheck
<1> QED
  BY <1>1, <1>2, <1>3, <1>4, <1>5, <1>6, StepCases

(* The type invariant, put together again.                                 *)
LEMMA TypeStep ==
  ASSUME TypeOK, StartsDiffer, [Next]_vars
  PROVE  TypeOK'
<1> USE TypeSplit
<1>1. SignInTypeOK'
  BY SignInTyped, SignInOnly
<1>2. AuthTypeOK'
  BY TablesStep
<1>3. edits' \in 0..MaxEdits /\ troubles' \in 0..MaxTroubles
  <2>1. edits \in 0..MaxEdits /\ troubles \in 0..MaxTroubles
    OBVIOUS
  <2>2. ASSUME NEW t \in Tabs, Works(t)
        PROVE  /\ edits' = edits \/ (edits < MaxEdits /\ edits' = edits + 1)
               /\ troubles' = troubles \/ (troubles < MaxTroubles /\ troubles' = troubles + 1)
    BY <2>2 DEF Works, Leaves, Open, Serve, Fails, MeArrives, LoadArrives, Edit, Save,
         SaveArrives, Check, PrefsArrive, Uncheck
  <2>3. CASE UNCHANGED pageVars
    BY <2>1, <2>3 DEF pageVars
  <2> QED
    BY <2>1, <2>2, <2>3, StepCases
<1>4. ASSUME NEW t \in Tabs, Works(t)
      PROVE  /\ showing' \in [Tabs -> Pages \cup {"closed"}]
             /\ who' \in [Tabs -> Users \cup {None}]
             /\ call' \in [Tabs -> [Ops -> Calls]]
             /\ page' \in [Tabs -> PageRecords]
  <2>1. OneTab(t) /\ TabTyped(t)'
    BY <1>4, Frame, TabTypedStep
  <2>2. showing' \in [Tabs -> Pages \cup {"closed"}] /\ who' \in [Tabs -> Users \cup {None}]
    BY <2>1 DEF OneTab, TabTyped
  <2>3. call' \in [Tabs -> [Ops -> Calls]]
    BY <2>1 DEF OneTab, TabTyped
  <2>4. page' \in [Tabs -> PageRecords]
    BY <2>1 DEF OneTab, TabTyped
  <2> QED
    BY <2>2, <2>3, <2>4
<1>5. ASSUME UNCHANGED pageVars
      PROVE  /\ showing' \in [Tabs -> Pages \cup {"closed"}]
             /\ who' \in [Tabs -> Users \cup {None}]
             /\ call' \in [Tabs -> [Ops -> Calls]]
             /\ page' \in [Tabs -> PageRecords]
  BY <1>5 DEF pageVars
<1>6. /\ showing' \in [Tabs -> Pages \cup {"closed"}]
      /\ who' \in [Tabs -> Users \cup {None}]
      /\ call' \in [Tabs -> [Ops -> Calls]]
      /\ page' \in [Tabs -> PageRecords]
  BY <1>4, <1>5, StepCases
<1> QED
  BY <1>1, <1>2, <1>3, <1>6 DEF TypeOK, Calls, PageRecords

(* An invariant of each tab that speaks of nothing else is preserved when  *)
(* the step of the tab itself preserves it.                                *)
LEMMA Elsewhere ==
  ASSUME TypeOK, NEW t \in Tabs, Works(t), NEW s \in Tabs \ {t}
  PROVE  /\ showing'[s] = showing[s] /\ who'[s] = who[s]
         /\ call'[s] = call[s] /\ page'[s] = page[s]
<1>1. OneTab(t)
  BY Frame
<1> QED
  BY <1>1, TypeSplit DEF OneTab

-----------------------------------------------------------------------------
(* Rows whose party size goes with the travel type.                        *)
RowsMatchAt(t) == (\A o \in Ops : Matched(call[t][o].row)) /\ Matched(page[t].fields)

TablesMatch == \A u \in People : demographics[u] # NoRow => Matched(demographics[u])

(* The rows that a form makes of matched rows match.                       *)
LEMMA MatchedRows ==
  /\ Matched(Nothing)
  /\ \A row \in Rows : Matched(row) =>
       /\ Matched(Prefilled(row))
       /\ \A f \in {"budget", "travelType"} : Matched(Typed(row, f))
BY DEF Matched, Nothing, Prefilled, Typed, Rows, Fields

(* What the service answers matches.                                       *)
LEMMA DemographicsMatch ==
  ASSUME TablesMatch, NEW u \in Users
  PROVE  Matched(Demographics(u))
BY MatchedRows DEF TablesMatch, Demographics

(* What a tab does keeps its rows matched.                                 *)
LEMMA RowsMatchAtStep ==
  ASSUME TypeOK, TablesMatch, NEW t \in Tabs, RowsMatchAt(t), Works(t)
  PROVE  RowsMatchAt(t)'
<1> USE DEF RowsMatchAt
<1>1. /\ SignInTypeOK /\ call[t] \in [Ops -> Calls] /\ page[t] \in PageRecords
      /\ call \in [Tabs -> [Ops -> Calls]] /\ page \in [Tabs -> PageRecords]
  BY TypeSplit
<1>2. Matched(Idle.row) /\ Matched(Sent.row) /\ Matched(Blank.fields)
  BY <1>1, Beginnings, MatchedRows
<1>3. CASE Leaves(t)
  BY <1>1, <1>2, <1>3 DEF Leaves
<1>4. ASSUME NEW p \in Pages, Open(t, p) PROVE RowsMatchAt(t)'
  <2>1. page' = page /\ \A o \in Ops : call'[t][o] = Sent \/ call'[t][o] = Idle
    BY <1>1, <1>4 DEF Open
  <2> QED
    BY <1>2, <2>1
<1>5. ASSUME NEW o \in Ops, Serve(t, o) \/ Fails(t, o) PROVE RowsMatchAt(t)'
  <2>1. page' = page
    BY <1>5 DEF Serve, Fails
  <2>2. PICK answer \in Answers, row \in Rows :
           /\ Answer(t, o, answer, row)
           /\ row \in {Nothing, call[t][o].row} \/ \E u \in Users : row = Demographics(u)
    BY <1>5, Served
  <2>3. Matched(row)
    BY <2>2, DemographicsMatch, MatchedRows
  <2>4. call'[t][o].row = row /\ \A q \in Ops \ {o} : call'[t][q] = call[t][q]
    BY <1>1, <2>2, Answered
  <2> QED
    BY <2>1, <2>3, <2>4
<1>6. ASSUME NEW ops \in SUBSET Ops, call' = Heard(t, ops), Matched(page'[t].fields)
      PROVE  RowsMatchAt(t)'
  BY <1>2, <1>6, HeardCalls
<1>7. CASE MeArrives(t)
  BY <1>6, <1>7 DEF MeArrives, Ops
<1>8. CASE LoadArrives(t)
  <2>1. call[t]["demographics"].row \in Rows /\ Matched(call[t]["demographics"].row)
    BY <1>1 DEF Calls, Ops
  <2>2. CASE page' = [page EXCEPT ![t].load = "failed"]
    <3>1. page'[t].fields = page[t].fields
      BY <1>1, <2>2 DEF PageRecords
    <3> QED
      BY <1>6, <1>8, <3>1 DEF LoadArrives, Ops
  <2>3. ASSUME NEW row, NEW fields, Matched(fields),
               page' = [page EXCEPT ![t] = [@ EXCEPT !.load = "ok", !.loaded = row, !.fields = fields]]
        PROVE  RowsMatchAt(t)'
    <3>1. page'[t].fields = fields
      BY <1>1, <2>3 DEF PageRecords
    <3> QED
      BY <1>6, <1>8, <2>3, <3>1 DEF LoadArrives, Ops
  <2> QED
    BY <1>8, <2>1, <2>2, <2>3, MatchedRows DEF LoadArrives
<1>9. ASSUME NEW f \in {"budget", "travelType"}, Edit(t, f) PROVE RowsMatchAt(t)'
  <2>1. page[t].fields \in Rows /\ page'[t].fields = Typed(page[t].fields, f) /\ call' = call
    BY <1>1, <1>9 DEF Edit, PageRecords
  <2> QED
    BY <2>1, MatchedRows
<1>10. CASE Save(t)
  <2>1. page' = page /\ call'[t]["put"].row = page[t].fields
        /\ \A o \in Ops \ {"put"} : call'[t][o] = call[t][o]
    BY <1>1, <1>10, Beginnings DEF Save, Ops, Calls
  <2> QED
    BY <2>1
<1>11. CASE SaveArrives(t)
  <2>1. CASE call' = Heard(t, {"put"}) /\ UNCHANGED <<showing, page>>
    BY <1>6, <2>1 DEF Ops
  <2>2. CASE /\ page' = [page EXCEPT ![t] = Blank]
             /\ call' = [call EXCEPT ![t] = [o \in Ops |->
                  IF o \in Loads("profile") THEN Sent ELSE IF o = "me" THEN call[t][o] ELSE Idle]]
    BY <1>1, <1>2, <2>2
  <2> QED
    BY <1>11, <2>1, <2>2 DEF SaveArrives
<1>12. ASSUME NEW o \in {"demographics", "again"}, Check(t, o) PROVE RowsMatchAt(t)'
  <2>1. page'[t].fields = page[t].fields
    BY <1>1, <1>12 DEF Check, PageRecords
  <2>2. call'[t][o] = Sent /\ \A q \in Ops \ {o} : call'[t][q] = call[t][q]
    BY <1>1, <1>12 DEF Check, Ops
  <2> QED
    BY <1>2, <2>1, <2>2
<1>13. ASSUME NEW o \in {"demographics", "again"}, PrefsArrive(t, o) PROVE RowsMatchAt(t)'
  <2>1. page'[t].fields \in {page[t].fields, call[t][o].row}
    BY <1>1, <1>13 DEF PrefsArrive, Unusable, PageRecords
  <2> QED
    BY <1>6, <1>13, <2>1 DEF PrefsArrive, Ops
<1>14. CASE Uncheck(t)
  BY <1>1, <1>14 DEF Uncheck, PageRecords
<1> QED
  BY <1>3, <1>4, <1>5, <1>7, <1>8, <1>9, <1>10, <1>11, <1>12, <1>13, <1>14 DEF Works

-----------------------------------------------------------------------------
(* Forms that still have what they were given.                             *)
StemsAt(t) ==
  /\ showing[t] = "closed" => page[t] = Blank
  /\ showing[t] = "edit" => Stems(page[t].fields, page[t].loaded)
  /\ call[t]["put"].leg = "sent" => Stems(call[t]["put"].row, call[t]["put"].loaded)

(* What is prefilled, or typed, stems from what was loaded.                *)
LEMMA StemmingRows ==
  /\ Stems(Nothing, Nothing)
  /\ \A row \in Rows : Matched(row) => Stems(Prefilled(row), row)
  /\ \A row, loaded \in Rows : Stems(row, loaded) =>
       \A f \in {"budget", "travelType"} : Stems(Typed(row, f), loaded)
<1>1. Stems(Nothing, Nothing)
  BY DEF Stems, Nothing, Fields
<1>2. ASSUME NEW row \in Rows, Matched(row) PROVE Stems(Prefilled(row), row)
  BY <1>2 DEF Stems, Prefilled, Matched, Rows, Fields
<1>3. ASSUME NEW row \in Rows, NEW loaded \in Rows, Stems(row, loaded),
             NEW f \in {"budget", "travelType"}
      PROVE  Stems(Typed(row, f), loaded)
  BY <1>3 DEF Stems, Typed, Rows, Fields
<1> QED
  BY <1>1, <1>2, <1>3

(* What a tab does keeps its forms so.                                     *)
LEMMA StemsAtStep ==
  ASSUME TypeOK, NEW t \in Tabs, RowsMatchAt(t), StemsAt(t), Works(t)
  PROVE  StemsAt(t)'
<1> USE DEF StemsAt
<1>1. /\ SignInTypeOK /\ call[t] \in [Ops -> Calls] /\ page[t] \in PageRecords
      /\ call \in [Tabs -> [Ops -> Calls]] /\ page \in [Tabs -> PageRecords]
      /\ showing \in [Tabs -> Pages \cup {"closed"}]
  BY TypeSplit
<1>2. Idle.leg = "idle" /\ Blank.fields = Nothing /\ Blank.loaded = Nothing
      /\ Sent.leg = "sent" /\ Sent.row = Nothing /\ Stems(Nothing, Nothing)
  BY <1>1, Beginnings, StemmingRows
<1>3. CASE Leaves(t)
  BY <1>1, <1>2, <1>3 DEF Leaves, Ops
<1>4. ASSUME NEW p \in Pages, Open(t, p) PROVE StemsAt(t)'
  <2>1. page'[t] = Blank /\ call'[t]["put"] = Idle /\ showing'[t] = p
    BY <1>1, <1>4 DEF Open, Ops, Loads
  <2> QED
    BY <1>2, <2>1 DEF Pages
<1>5. ASSUME NEW o \in Ops, Serve(t, o) \/ Fails(t, o) PROVE StemsAt(t)'
  <2>1. UNCHANGED <<page, showing>>
    BY <1>5 DEF Serve, Fails
  <2>2. call'[t]["put"].leg = "answered" \/ call'[t]["put"] = call[t]["put"]
    BY <1>1, <1>5, Served, Answered DEF Ops
  <2> QED
    BY <2>1, <2>2
<1>6. ASSUME NEW ops \in SUBSET Ops, call' = Heard(t, ops)
      PROVE  call'[t]["put"].leg = "idle" \/ call'[t]["put"] = call[t]["put"]
  BY <1>2, <1>6, HeardCalls DEF Ops
<1>7. CASE MeArrives(t)
  BY <1>6, <1>7 DEF MeArrives, Ops
<1>8. CASE LoadArrives(t)
  <2>1. call[t]["demographics"].row \in Rows /\ Matched(call[t]["demographics"].row)
    BY <1>1 DEF Calls, Ops, RowsMatchAt
  <2>2. showing' = showing /\ showing[t] # "closed"
        /\ (call'[t]["put"].leg = "idle" \/ call'[t]["put"] = call[t]["put"])
    BY <1>6, <1>8 DEF LoadArrives, Ops
  <2>3. CASE page' = [page EXCEPT ![t].load = "failed"]
    <3>1. page'[t].fields = page[t].fields /\ page'[t].loaded = page[t].loaded
      BY <1>1, <2>3 DEF PageRecords
    <3> QED
      BY <2>2, <3>1
  <2>4. ASSUME NEW row, NEW fields, showing[t] = "edit" => Stems(fields, row),
               page' = [page EXCEPT ![t] = [@ EXCEPT !.load = "ok", !.loaded = row, !.fields = fields]]
        PROVE  StemsAt(t)'
    <3>1. page'[t].fields = fields /\ page'[t].loaded = row
      BY <1>1, <2>4 DEF PageRecords
    <3> QED
      BY <2>2, <2>4, <3>1
  <2> DEFINE row    == call[t]["demographics"].row
             fields == IF showing[t] = "edit" THEN Prefilled(row) ELSE row
  <2>5. showing[t] = "edit" => Stems(fields, row)
    BY <2>1, StemmingRows
  <2>6. \/ page' = [page EXCEPT ![t].load = "failed"]
        \/ page' = [page EXCEPT ![t] = [@ EXCEPT !.load = "ok", !.loaded = row, !.fields = fields]]
    BY <1>8 DEF LoadArrives
  <2> HIDE DEF row, fields
  <2> QED
    BY <2>3, <2>4, <2>5, <2>6
<1>9. ASSUME NEW f \in {"budget", "travelType"}, Edit(t, f) PROVE StemsAt(t)'
  <2>1. page[t].fields \in Rows /\ page[t].loaded \in Rows
        /\ page'[t].fields = Typed(page[t].fields, f) /\ page'[t].loaded = page[t].loaded
        /\ call' = call /\ showing' = showing /\ showing[t] # "closed"
    BY <1>1, <1>9 DEF Edit, PageRecords
  <2> QED
    BY <2>1, StemmingRows
<1>10. CASE Save(t)
  <2>1. page' = page /\ showing' = showing /\ showing[t] = "edit"
        /\ call'[t]["put"].row = page[t].fields /\ call'[t]["put"].loaded = page[t].loaded
    BY <1>1, <1>10, Beginnings DEF Save, Ops, Calls
  <2> QED
    BY <2>1
<1>11. CASE SaveArrives(t)
  <2>1. CASE call' = Heard(t, {"put"}) /\ UNCHANGED <<showing, page>>
    BY <1>6, <2>1 DEF Ops
  <2>2. CASE /\ showing' = [showing EXCEPT ![t] = "profile"]
             /\ page' = [page EXCEPT ![t] = Blank]
             /\ call' = [call EXCEPT ![t] = [o \in Ops |->
                  IF o \in Loads("profile") THEN Sent ELSE IF o = "me" THEN call[t][o] ELSE Idle]]
    BY <1>1, <1>2, <2>2 DEF Loads, Ops
  <2> QED
    BY <1>11, <2>1, <2>2 DEF SaveArrives
<1>12. ASSUME NEW o \in {"demographics", "again"}, Check(t, o) PROVE StemsAt(t)'
  <2>1. showing' = showing /\ showing[t] = "planForm" /\ call'[t]["put"] = call[t]["put"]
    BY <1>1, <1>12 DEF Check, Ops
  <2> QED
    BY <2>1
<1>13. ASSUME NEW o \in {"demographics", "again"}, PrefsArrive(t, o) PROVE StemsAt(t)'
  <2>1. showing' = showing /\ showing[t] = "planForm"
        /\ (call'[t]["put"].leg = "idle" \/ call'[t]["put"] = call[t]["put"])
    BY <1>6, <1>13 DEF PrefsArrive, Ops
  <2> QED
    BY <2>1
<1>14. CASE Uncheck(t)
  BY <1>1, <1>14 DEF Uncheck
<1> QED
  BY <1>3, <1>4, <1>5, <1>7, <1>8, <1>9, <1>10, <1>11, <1>12, <1>13, <1>14 DEF Works

-----------------------------------------------------------------------------
(* Requests, and whom AuthContext names; a closed tab has neither.         *)
FitsAt(t) ==
  /\ \A o \in Ops : call[t][o].leg # "answered" => call[t][o].answer = "none"
  /\ call[t]["me"].answer = "ok" => call[t]["me"].as # None /\ users[call[t]["me"].as] # NoRow
  /\ who[t] # None => call[t]["me"].leg = "idle" /\ users[who[t]] # NoRow
  /\ call[t]["put"].leg # "idle" => who[t] # None
  /\ call[t]["put"].answer = "404" => call[t]["put"].as # who[t]
  /\ showing[t] = "closed" => who[t] = None /\ \A o \in Ops : call[t][o].leg = "idle"

(* Rows that appear elsewhere disturb nobody.                              *)
LEMMA FitsAtKept ==
  ASSUME TypeOK, [Next]_vars, NEW t \in Tabs, FitsAt(t),
         showing'[t] = showing[t], who'[t] = who[t], call'[t] = call[t]
  PROVE  FitsAt(t)'
<1>1. who[t] \in Users \cup {None} /\ call[t]["me"].as \in Users \cup {None}
  BY TypeSplit DEF Ops, Calls
<1>2. \A u \in Users : users[u] # NoRow => users'[u] # NoRow
  BY TablesStep
<1> QED
  BY <1>1, <1>2 DEF FitsAt

(* An answer of /me comes with a row, and only a PUT without one is a 404  *)
(* that AuthContext could have prevented.                                  *)
LEMMA ServedHow ==
  ASSUME TypeOK, NEW t \in Tabs, NEW o \in Ops, Serve(t, o) \/ Fails(t, o)
  PROVE  \/ Answer(t, o, "failed", Nothing)
         \/ /\ o = "me" /\ Answer(t, o, "ok", Nothing)
            /\ call[t][o].as # None /\ users'[call[t][o].as] # NoRow
         \/ o # "me" /\ \E row \in Rows : Answer(t, o, "ok", row)
         \/ o = "companion" /\ Answer(t, o, "404", Nothing)
         \/ o = "put" /\ users[call[t][o].as] = NoRow /\ Answer(t, o, "404", Nothing)
<1> DEFINE u == call[t][o].as
<1>1. u \in Users \cup {None} /\ call[t][o].row \in Rows /\ AuthTypeOK /\ Nothing \in Rows
  BY TypeSplit, Beginnings DEF Calls
<1>2. CASE Fails(t, o)
  BY <1>2 DEF Fails
<1>3. CASE u # None /\ o = "me" /\ (\E named \in BOOLEAN : GetMe(u, named))
           /\ Answer(t, o, "ok", Nothing)
  <2>1. users'[u] \in Names
    BY <1>1, <1>3 DEF GetMe, Upserted, Names, AuthTypeOK
  <2> QED
    BY <1>3, <2>1
<1>4. CASE u # None /\ o \in {"demographics", "again"} /\ Answer(t, o, "ok", Demographics(u))
  BY <1>1, <1>4, DemographicsTyped
<1>5. CASE u # None /\ o = "put" /\ Serve(t, o)
  BY <1>1, <1>5 DEF Serve, HasProfile
<1>6. CASE o = "companion" /\ Serve(t, o)
  BY <1>1, <1>6 DEF Serve
<1> QED
  BY <1>2, <1>3, <1>4, <1>5, <1>6 DEF Serve

(* How a tab's own steps keep it so.                                       *)
LEMMA FitsAtStep ==
  ASSUME TypeOK, [Next]_vars, NEW t \in Tabs, FitsAt(t), Works(t)
  PROVE  FitsAt(t)'
<1>1. /\ SignInTypeOK /\ AuthTypeOK /\ call[t] \in [Ops -> Calls] /\ page[t] \in PageRecords
      /\ call \in [Tabs -> [Ops -> Calls]] /\ showing \in [Tabs -> Pages \cup {"closed"}]
      /\ who \in [Tabs -> Users \cup {None}]
  BY TypeSplit
<1>2. /\ Idle.leg = "idle" /\ Idle.answer = "none"
      /\ Sent.leg = "sent" /\ Sent.answer = "none"
  BY <1>1, Beginnings
<1>3. \A u \in Users : users[u] # NoRow => users'[u] # NoRow
  BY TablesStep
<1>4. /\ who[t] # None => users'[who[t]] # NoRow
      /\ call[t]["me"].answer = "ok" => users'[call[t]["me"].as] # NoRow
  BY <1>1, <1>3 DEF FitsAt, Calls, Ops
<1>5. CASE Leaves(t)
  <2>1. who'[t] = None /\ \A o \in Ops : call'[t][o] = Idle
    BY <1>1, <1>5 DEF Leaves
  <2> QED
    BY <1>2, <2>1 DEF FitsAt, Ops
<1>6. ASSUME NEW p \in Pages, Open(t, p) PROVE FitsAt(t)'
  <2>1. who'[t] = None /\ showing'[t] = p /\ p # "closed"
        /\ call'[t]["put"] = Idle /\ \A o \in Ops : call'[t][o] = Sent \/ call'[t][o] = Idle
    BY <1>1, <1>6 DEF Open, FitsAt, Ops, Loads, Pages
  <2> QED
    BY <1>2, <2>1 DEF FitsAt, Ops
<1>7. ASSUME NEW o \in Ops, Serve(t, o) \/ Fails(t, o) PROVE FitsAt(t)'
  <2>1. UNCHANGED <<showing, who>> /\ showing[t] # "closed"
        /\ (o = "me" => who[t] = None) /\ (o = "put" => who[t] # None)
    BY <1>7 DEF Serve, Fails, FitsAt, Ops
  <2>2. ASSUME NEW answer \in Answers, NEW row \in Rows, Answer(t, o, answer, row),
               o = "me" /\ answer = "ok" => call[t][o].as # None /\ users'[call[t][o].as] # NoRow,
               o = "put" /\ answer = "404" => users[call[t][o].as] = NoRow
        PROVE  FitsAt(t)'
    <3>1. /\ call'[t][o].leg = "answered" /\ call'[t][o].answer = answer
          /\ call'[t][o].as = call[t][o].as
          /\ \A q \in Ops \ {o} : call'[t][q] = call[t][q]
      BY <1>1, <2>2, Answered
    <3>2. CASE o = "me"
      BY <1>4, <2>1, <2>2, <3>1, <3>2 DEF FitsAt, Ops
    <3>3. CASE o = "put"
      BY <1>4, <2>1, <2>2, <3>1, <3>3 DEF FitsAt, Ops
    <3>4. CASE o \notin {"me", "put"}
      BY <1>4, <2>1, <2>2, <3>1, <3>4 DEF FitsAt, Ops
    <3> QED
      BY <3>2, <3>3, <3>4
  <2>3. Nothing \in Rows /\ {"ok", "failed", "404"} \subseteq Answers
    BY <1>1, Beginnings DEF Answers
  <2> QED
    BY <1>7, <2>2, <2>3, ServedHow
<1>8. ASSUME NEW ops \in SUBSET Ops, call' = Heard(t, ops), UNCHANGED <<showing, who>>
      PROVE  FitsAt(t)'
  <2>1. \A o \in Ops : call'[t][o] = IF o \in ops THEN Idle ELSE call[t][o]
    BY <1>8, HeardCalls
  <2> QED
    BY <1>2, <1>4, <1>8, <2>1 DEF FitsAt, Ops
<1>9. CASE MeArrives(t)
  <2>1. /\ call'[t]["me"] = Idle /\ \A o \in Ops \ {"me"} : call'[t][o] = call[t][o]
        /\ showing' = showing /\ showing[t] # "closed"
        /\ who'[t] = IF call[t]["me"].answer = "ok" THEN call[t]["me"].as ELSE None
        /\ who[t] = None
    BY <1>1, <1>9, HeardCalls DEF MeArrives, Ops, FitsAt
  <2> QED
    BY <1>2, <1>4, <2>1 DEF FitsAt, Ops
<1>10. CASE LoadArrives(t)
  BY <1>8, <1>10 DEF LoadArrives, Ops
<1>11. ASSUME UNCHANGED <<showing, who, call>> PROVE FitsAt(t)'
  BY <1>11, FitsAtKept
<1>12. CASE Save(t)
  <2>1. /\ call'[t]["put"].leg = "sent" /\ call'[t]["put"].answer = "none"
        /\ \A o \in Ops \ {"put"} : call'[t][o] = call[t][o]
        /\ UNCHANGED <<showing, who>> /\ showing[t] # "closed" /\ who[t] # None
    BY <1>1, <1>12, Beginnings DEF Save, MaySave, Ops, Calls
  <2> QED
    BY <1>4, <2>1 DEF FitsAt, Ops
<1>13. CASE SaveArrives(t)
  <2>1. CASE call' = Heard(t, {"put"}) /\ UNCHANGED <<showing, page>>
    BY <1>8, <1>13, <2>1 DEF Ops, SaveArrives
  <2>2. CASE /\ showing' = [showing EXCEPT ![t] = "profile"]
             /\ call' = [call EXCEPT ![t] = [o \in Ops |->
                  IF o \in Loads("profile") THEN Sent ELSE IF o = "me" THEN call[t][o] ELSE Idle]]
    <3>1. /\ call'[t]["me"] = call[t]["me"] /\ call'[t]["put"] = Idle
          /\ \A o \in Ops \ {"me"} : call'[t][o] = Sent \/ call'[t][o] = Idle
          /\ showing'[t] = "profile" /\ who' = who
      BY <1>1, <1>13, <2>2 DEF SaveArrives, Ops, Loads
    <3> QED
      BY <1>2, <1>4, <3>1 DEF FitsAt, Ops
  <2> QED
    BY <1>13, <2>1, <2>2 DEF SaveArrives
<1>14. ASSUME NEW o \in {"demographics", "again"}, Check(t, o) PROVE FitsAt(t)'
  <2>1. call'[t][o] = Sent /\ (\A q \in Ops \ {o} : call'[t][q] = call[t][q])
        /\ UNCHANGED <<showing, who>> /\ showing[t] # "closed"
    BY <1>1, <1>14 DEF Check, Ops
  <2> QED
    BY <1>2, <1>4, <2>1 DEF FitsAt, Ops
<1>15. ASSUME NEW o \in {"demographics", "again"}, PrefsArrive(t, o) PROVE FitsAt(t)'
  BY <1>8, <1>15 DEF PrefsArrive, Ops
<1> QED
  BY <1>5, <1>6, <1>7, <1>9, <1>10, <1>11, <1>12, <1>13, <1>14, <1>15 DEF Works, Edit, Uncheck

-----------------------------------------------------------------------------
(* Boxes that are checked.                                                 *)
FilledAt(t) ==
  /\ showing[t] = "planForm" /\ page[t].checked
  /\ \A o \in {"demographics", "again"} : call[t][o].leg = "idle"
  => page[t].fields["travelType"] # "default"

(* A box that a step leaves checked, on the same form, stays filled.       *)
LEMMA FilledAtStep ==
  ASSUME TypeOK, NEW t \in Tabs, StemsAt(t), FilledAt(t), Works(t)
  PROVE  FilledAt(t)'
<1> USE DEF FilledAt
<1>1. /\ SignInTypeOK /\ call[t] \in [Ops -> Calls] /\ page[t] \in PageRecords
      /\ call \in [Tabs -> [Ops -> Calls]] /\ page \in [Tabs -> PageRecords]
      /\ showing \in [Tabs -> Pages \cup {"closed"}]
  BY TypeSplit
<1>2. CASE Leaves(t)
  BY <1>1, <1>2 DEF Leaves
<1>3. ASSUME NEW p \in Pages, Open(t, p) PROVE FilledAt(t)'
  BY <1>1, <1>3, Beginnings DEF Open, StemsAt
<1>4. ASSUME NEW o \in Ops, Serve(t, o) \/ Fails(t, o) PROVE FilledAt(t)'
  <2>1. UNCHANGED <<page, showing>>
    BY <1>4 DEF Serve, Fails
  <2>2. call[t][o].leg # "idle" /\ call'[t][o].leg = "answered"
        /\ \A q \in Ops \ {o} : call'[t][q] = call[t][q]
    BY <1>1, <1>4, Served, Answered DEF Serve, Fails
  <2>3. CASE o \in {"demographics", "again"}
    BY <2>2, <2>3
  <2>4. CASE o \notin {"demographics", "again"}
    BY <2>1, <2>2, <2>4 DEF Ops
  <2> QED
    BY <2>3, <2>4
<1>5. CASE MeArrives(t)
  <2>1. UNCHANGED <<page, showing>> /\ \A o \in Ops \ {"me"} : call'[t][o] = call[t][o]
    BY <1>5, HeardCalls DEF MeArrives, Ops
  <2> QED
    BY <2>1 DEF Ops
<1>6. CASE LoadArrives(t)
  BY <1>6 DEF LoadArrives
<1>7. ASSUME NEW f \in {"budget", "travelType"}, Edit(t, f) PROVE FilledAt(t)'
  BY <1>1, <1>7 DEF Edit, PageRecords
<1>8. CASE Save(t)
  BY <1>8 DEF Save
<1>9. CASE SaveArrives(t)
  <2>1. CASE call' = Heard(t, {"put"}) /\ UNCHANGED <<showing, page>>
    <3>1. \A o \in Ops \ {"put"} : call'[t][o] = call[t][o]
      BY <2>1, HeardCalls DEF Ops
    <3> QED
      BY <2>1, <3>1 DEF Ops
  <2>2. CASE showing' = [showing EXCEPT ![t] = "profile"]
    BY <1>1, <2>2
  <2> QED
    BY <1>9, <2>1, <2>2 DEF SaveArrives
<1>10. ASSUME NEW o \in {"demographics", "again"}, Check(t, o) PROVE FilledAt(t)'
  <2>1. call'[t][o] = Sent
    BY <1>1, <1>10 DEF Check, Ops
  <2> QED
    BY <1>1, <2>1, Beginnings
<1>11. ASSUME NEW o \in {"demographics", "again"}, PrefsArrive(t, o) PROVE FilledAt(t)'
  <2>1. ~page'[t].checked \/ page'[t].fields["travelType"] # "default"
    BY <1>1, <1>11 DEF PrefsArrive, Unusable, PageRecords
  <2> QED
    BY <2>1
<1>12. CASE Uncheck(t)
  BY <1>1, <1>12 DEF Uncheck, PageRecords
<1> QED
  BY <1>2, <1>3, <1>4, <1>5, <1>6, <1>7, <1>8, <1>9, <1>10, <1>11, <1>12 DEF Works

-----------------------------------------------------------------------------
(* The preferences.                                                        *)

(* They change by a PUT only, to the row that it was sent with.            *)
LEMMA PutOnly ==
  ASSUME TypeOK, [Next]_vars, demographics' # demographics
  PROVE  \E t \in Tabs :
           /\ call[t]["put"].leg = "sent" /\ call'[t]["put"].leg = "answered"
           /\ call[t]["put"].as \in Users
           /\ PutDemographics(call[t]["put"].as, call[t]["put"].row)
<1>1. PICK t \in Tabs : Works(t)
  BY StepCases DEF authVars, PatchProfile
<1>2. PICK o \in Ops : Serve(t, o)
  BY <1>1 DEF Works, Open, Fails, MeArrives, LoadArrives, Edit, Save, SaveArrives, Check,
       PrefsArrive, Uncheck, authVars
<1>3. o = "put" /\ call[t][o].as # None /\ PutDemographics(call[t][o].as, call[t][o].row)
  BY <1>2 DEF Serve, GetMe, authVars
<1>4. call[t][o].leg = "sent" /\ call'[t][o].leg = "answered"
  BY <1>2, TypeSplit, Served, Answered DEF Serve
<1>5. call[t][o].as \in Users
  BY <1>3, TypeSplit DEF Calls
<1> QED
  BY <1>3, <1>4, <1>5

(* What is stored is matched, because what is sent is.                     *)
LEMMA TablesMatchStep ==
  ASSUME TypeOK, TablesMatch, \A t \in Tabs : RowsMatchAt(t), [Next]_vars
  PROVE  TablesMatch'
<1>1. CASE demographics' = demographics
  BY <1>1 DEF TablesMatch
<1>2. CASE demographics' # demographics
  <2>1. PICK t \in Tabs : PutDemographics(call[t]["put"].as, call[t]["put"].row)
    BY <1>2, PutOnly
  <2>2. Matched(call[t]["put"].row)
    BY DEF RowsMatchAt, Ops
  <2> QED
    BY <2>1, <2>2, TypeSplit DEF TablesMatch, PutDemographics, AuthTypeOK
<1> QED
  BY <1>1, <1>2

(* A PUT replaces a field by another value only when its form had not      *)
(* loaded that field, or because the travel type is not listed.            *)
LEMMA PutKeeps ==
  ASSUME TypeOK, \A t \in Tabs : StemsAt(t), [Next]_vars,
         NEW u \in People, NEW f \in Fields,
         demographics[u] # NoRow, demographics[u][f] = u, demographics'[u][f] \notin {u, "typed"}
  PROVE  \/ f = "partySize" /\ u \in Unmatched
         \/ \E t \in Tabs :
              /\ call[t]["put"].leg = "sent" /\ call[t]["put"].as = u
              /\ call'[t]["put"].leg = "answered"
              /\ call[t]["put"].loaded[f] # u
<1>1. PICK t \in Tabs :
        /\ call[t]["put"].leg = "sent" /\ call'[t]["put"].leg = "answered"
        /\ PutDemographics(call[t]["put"].as, call[t]["put"].row)
  BY PutOnly
<1>2. call[t]["put"].as = u /\ demographics'[u] = call[t]["put"].row
  BY <1>1, TypeSplit DEF PutDemographics, AuthTypeOK
<1>3. Stems(call[t]["put"].row, call[t]["put"].loaded)
  BY <1>1 DEF StemsAt
<1>4. CASE call[t]["put"].loaded[f] = u
  BY <1>2, <1>3, <1>4 DEF Stems
<1>5. CASE call[t]["put"].loaded[f] # u
  BY <1>1, <1>2, <1>5
<1> QED
  BY <1>4, <1>5

-----------------------------------------------------------------------------
(* All of it together is inductive.                                        *)
TabInv(t) == RowsMatchAt(t) /\ StemsAt(t) /\ FitsAt(t) /\ FilledAt(t)

Inv ==
  /\ TypeOK
  /\ JarFits /\ StartsDiffer /\ LossesExplained
  /\ ExchangeFitsItsStart /\ FailuresAreExplained
  /\ TablesMatch
  /\ \A t \in Tabs : TabInv(t)

(* It holds with a session that is left from an earlier visit or without,  *)
(* and with whichever users the seed has.                                  *)
LEMMA InitInv == Init => Inv
<1> SUFFICES ASSUME Init PROVE Inv
  OBVIOUS
<1> USE DEF Init, SignInInit
<1>1. SignInTypeOK
  BY DEF SignInTypeOK, Places, Reasons, Starts
<1>2. AuthTypeOK /\ TablesMatch
  <2>1. PICK seeded \in SUBSET People :
          /\ users = [u \in People |-> IF u \in seeded THEN "claimed" ELSE NoRow]
          /\ demographics = [u \in People |->
               IF u \in seeded THEN [f \in Fields |-> u] ELSE NoRow]
    BY DEF AuthInit
  <2>2. ASSUME NEW u \in People PROVE [f \in Fields |-> u] \in Rows /\ Matched([f \in Fields |-> u])
    BY DEF Rows, Values, Fields, Matched
  <2>3. AuthTypeOK
    BY <2>1, <2>2 DEF AuthTypeOK, Names
  <2>4. TablesMatch
    BY <2>1, <2>2 DEF TablesMatch
  <2> QED
    BY <2>3, <2>4
<1>3. TypeOK
  BY <1>1, <1>2, TypeSplit, Beginnings
<1>4. JarFits /\ StartsDiffer /\ LossesExplained /\ ExchangeFitsItsStart /\ FailuresAreExplained
  BY DEF JarFits, StartsDiffer, LossesExplained, ExchangeFitsItsStart, FailuresAreExplained
<1>5. ASSUME NEW t \in Tabs PROVE TabInv(t)
  <2>1. /\ showing[t] = "closed" /\ who[t] = None /\ page[t] = Blank
        /\ \A o \in Ops : call[t][o] = Idle
    OBVIOUS
  <2>2. RowsMatchAt(t) /\ FilledAt(t)
    BY <1>1, <2>1, Beginnings, MatchedRows DEF RowsMatchAt, FilledAt
  <2>3. StemsAt(t) /\ FitsAt(t)
    BY <1>1, <2>1, Beginnings DEF StemsAt, FitsAt, Ops
  <2> QED
    BY <2>2, <2>3 DEF TabInv
<1> QED
  BY <1>2, <1>3, <1>4, <1>5 DEF Inv

(* A step is of one tab, and each of the others keeps what is said of it.  *)
LEMMA InvStep == Inv /\ [Next]_vars => Inv'
<1> SUFFICES ASSUME Inv, [Next]_vars PROVE Inv'
  OBVIOUS
<1> USE DEF Inv, TabInv
<1>1. SignInTypeOK /\ [SignInNext]_signInVars
  BY TypeSplit, SignInOnly
<1>2. TypeOK' /\ TablesMatch'
  BY TypeStep, TablesMatchStep
<1>3. /\ JarFits' /\ StartsDiffer' /\ LossesExplained'
      /\ ExchangeFitsItsStart' /\ FailuresAreExplained'
  BY <1>1, JarStep, StartsStep, LossesStep, ExchangeStep, FailuresStep
<1>4. ASSUME NEW t \in Tabs, Works(t) PROVE TabInv(t)'
  BY <1>4, RowsMatchAtStep, StemsAtStep, FitsAtStep, FilledAtStep
<1>5. ASSUME NEW s \in Tabs, showing'[s] = showing[s], who'[s] = who[s], call'[s] = call[s],
             page'[s] = page[s]
      PROVE  TabInv(s)'
  <2>1. FitsAt(s)'
    BY <1>5, FitsAtKept
  <2> QED
    BY <1>5, <2>1 DEF RowsMatchAt, StemsAt, FilledAt
<1>6. ASSUME NEW s \in Tabs PROVE TabInv(s)'
  <2>1. ASSUME NEW t \in Tabs, Works(t) PROVE TabInv(s)'
    <3>1. CASE s = t
      BY <1>4, <2>1, <3>1
    <3>2. CASE s # t
      BY <1>5, <2>1, <3>2, Elsewhere
    <3> QED
      BY <3>1, <3>2
  <2>2. CASE UNCHANGED pageVars
    BY <1>5, <2>2 DEF pageVars
  <2> QED
    BY <2>1, <2>2, StepCases
<1> QED
  BY <1>2, <1>3, <1>6

(* The forms agree with the account when each tab's form does.             *)
LEMMA InvForms == Inv => FormsAgreeWithTheAccount
BY DEF Inv, TabInv, FitsAt, FilledAt, FormsAgreeWithTheAccount

(* A name is not replaced by the placeholder: the upsert keeps what the    *)
(* token does not give.                                                    *)
LEMMA NameStep ==
  ASSUME TypeOK, [Next]_vars, NEW u \in People, users[u] \in {"claimed", "edited"}
  PROVE  users'[u] # NewUser
<1> USE TypeSplit DEF AuthTypeOK, NewUser
<1>1. ASSUME NEW v \in People, PatchProfile(v) PROVE users'[u] # NewUser
  BY <1>1 DEF PatchProfile
<1>2. ASSUME NEW v \in People, NEW named \in BOOLEAN, GetMe(v, named) PROVE users'[u] # NewUser
  <2>1. CASE u = v
    <3>1. users'[u] = Upserted(v, named)
      BY <1>2, <2>1 DEF GetMe
    <3>2. users[v] # NoRow
      BY <2>1 DEF Names
    <3> QED
      BY <2>1, <3>1, <3>2 DEF Upserted
  <2>2. CASE u # v
    BY <1>2, <2>2 DEF GetMe
  <2> QED
    BY <2>1, <2>2
<1>3. CASE users' = users
  BY <1>3
<1>4. ASSUME NEW t \in Tabs, NEW o \in Ops, Serve(t, o)
      PROVE  users' = users \/ \E v \in People, named \in BOOLEAN : GetMe(v, named)
  <2>1. call[t][o].as \in Users \cup {None}
    BY DEF Calls
  <2> QED
    BY <1>4, <2>1 DEF Serve, PutDemographics, authVars
<1>5. ASSUME NEW t \in Tabs, Works(t), \A o \in Ops : ~Serve(t, o)
      PROVE  users' = users
  BY <1>5 DEF Works, Open, Fails, MeArrives, LoadArrives, Edit, Save, SaveArrives, Check,
       PrefsArrive, Uncheck, authVars
<1>6. ASSUME NEW t \in Tabs, Works(t) PROVE users'[u] # NewUser
  <2>1. ASSUME NEW o \in Ops, Serve(t, o) PROVE users'[u] # NewUser
    <3>1. CASE users' = users
      BY <1>3, <3>1
    <3>2. CASE users' # users
      <4>1. PICK v \in People, named \in BOOLEAN : GetMe(v, named)
        BY <1>4, <2>1, <3>2
      <4> QED
        BY <1>2, <4>1
    <3> QED
      BY <3>1, <3>2
  <2> QED
    BY <1>3, <1>5, <1>6, <2>1
<1>7. CASE UNCHANGED authVars
  BY <1>3, <1>7 DEF authVars
<1> QED
  BY <1>1, <1>6, <1>7, StepCases

-----------------------------------------------------------------------------
(* The cookies, the tables, the pages and their requests keep their types, *)
(* and the foreign key of the preferences holds.                           *)
THEOREM TypeSafety == Spec => []TypeOK
<1>1. Inv => TypeOK
  BY DEF Inv
<1> QED
  BY <1>1, InitInv, InvStep, PTL DEF Spec

(* However many tabs sign in at once, a callback that the state admits     *)
(* carries the verifier and the page of its own start.                     *)
THEOREM ExchangesFit == Spec => []ExchangeFitsItsStart
<1>1. Inv => ExchangeFitsItsStart
  BY DEF Inv
<1> QED
  BY <1>1, InitInv, InvStep, PTL DEF Spec

(* The callback refuses a sign-in only after its cookies have gone.        *)
THEOREM FailuresExplained == Spec => []FailuresAreExplained
<1>1. Inv => FailuresAreExplained
  BY DEF Inv
<1> QED
  BY <1>1, InitInv, InvStep, PTL DEF Spec

(* A save of the reader whom the page knows finds the row of the foreign   *)
(* key, and a checked box has filled its form.                             *)
THEOREM FormsAgree == Spec => []FormsAgreeWithTheAccount
BY InitInv, InvStep, InvForms, PTL DEF Spec

(* No sequence of tokens with and without names forgets a name.            *)
THEOREM NamesAreKept == Spec => NameNeverForgotten
<1>1. ASSUME Inv, [Next]_vars
      PROVE  [\A u \in People : users[u] \in {"claimed", "edited"} => users'[u] # NewUser]_authVars
  BY <1>1, NameStep DEF Inv
<1> QED
  BY <1>1, InitInv, InvStep, PTL DEF Spec, NameNeverForgotten

(* A form that had loaded what a user had stored does not lose it, however *)
(* the tabs of the browser change the session meanwhile.                   *)
THEOREM PreferencesAreKept == Spec => PreferencesKept
<1>1. ASSUME Inv, [Next]_vars
      PROVE  [\A u \in People, f \in Fields :
                 /\ demographics[u] # NoRow
                 /\ demographics[u][f] = u
                 /\ demographics'[u][f] \notin {u, "typed"}
                 => \/ f = "partySize" /\ u \in Unmatched
                    \/ \E t \in Tabs :
                         /\ call[t]["put"].leg = "sent" /\ call[t]["put"].as = u
                         /\ call'[t]["put"].leg = "answered"
                         /\ call[t]["put"].loaded[f] # u]_vars
  BY <1>1, PutKeeps DEF Inv, TabInv
<1> QED
  BY <1>1, InitInv, InvStep, PTL DEF Spec, PreferencesKept

=============================================================================
