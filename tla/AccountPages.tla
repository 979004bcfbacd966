---------------------------- MODULE AccountPages ----------------------------
(***************************************************************************)
(* The pages that know their reader: AuthContext, which asks GET /me once  *)
(* on mount, the profile page, the form that edits the travel preferences, *)
(* and the planning form, which can copy them.  A request is made as       *)
(* whoever the session cookie names when it is sent, not as the user whom  *)
(* the page remembers; the two differ once another tab signs in or out.    *)
(***************************************************************************)
EXTENDS WebSignIn, AuthService

CONSTANTS
  Unmatched,    \* users whose stored party size is not the one that the list of
                \* travel types gives for their type, or whose type is not in it
  MaxEdits,     \* bound: fields that are typed
  MaxTroubles   \* bound: requests that fail

ASSUME AccountAssumption ==
  People = Users /\ Unmatched \subseteq Users /\ MaxEdits \in Nat /\ MaxTroubles \in Nat

VARIABLES
  showing,    \* the page in each tab
  who,        \* the user of AuthContext
  call,       \* the requests of each page
  page,       \* what the page has loaded and shows
  edits, troubles

pageVars == <<showing, who, call, page, edits, troubles>>
vars     == <<signInVars, authVars, pageVars>>

Pages == {"profile", "edit", "planForm"}

\* The second half of a Promise.all is GET /profile or the travel types; the
\* checkbox of the planning form can have two requests under way.
Ops  == {"me", "companion", "demographics", "again", "put"}
Idle == [leg |-> "idle", as |-> None, answer |-> "none", row |-> Nothing,
         loaded |-> Nothing]
Answers == {"none", "ok", "failed", "404"}

\* loaded is what the page was given, whatever was typed into it since.
Blank == [load |-> "pending", loaded |-> Nothing, fields |-> Nothing, checked |-> FALSE]

\* The state of the browser and of the two tables.
TypeOK ==
  /\ SignInTypeOK /\ AuthTypeOK
  /\ showing \in [Tabs -> Pages \cup {"closed"}]
  /\ who \in [Tabs -> Users \cup {None}]
  /\ call \in [Tabs -> [Ops -> [leg : {"idle", "sent", "answered"}, as : Users \cup {None},
                                answer : Answers, row : Rows, loaded : Rows]]]
  /\ page \in [Tabs -> [load : {"pending", "ok", "failed"}, loaded : Rows,
                        fields : Rows, checked : BOOLEAN]]
  /\ edits \in 0..MaxEdits /\ troubles \in 0..MaxTroubles

Init ==
  /\ SignInInit /\ AuthInit
  /\ showing = [t \in Tabs |-> "closed"]
  /\ who = [t \in Tabs |-> None]
  /\ call = [t \in Tabs |-> [o \in Ops |-> Idle]]
  /\ page = [t \in Tabs |-> Blank]
  /\ edits = 0 /\ troubles = 0

-----------------------------------------------------------------------------
Sent == [Idle EXCEPT !.leg = "sent", !.as = jar.session]

Loads(p) == IF p = "planForm" THEN {} ELSE {"companion", "demographics"}

\* A page mounts: its own effect runs before the one of AuthContext around it.
Open(t, p) ==
  /\ at[t] = "page"
  /\ showing[t] = "closed"
  /\ showing' = [showing EXCEPT ![t] = p]
  /\ call' = [call EXCEPT ![t] =
       [o \in Ops |-> IF o \in Loads(p) \cup {"me"} THEN Sent ELSE Idle]]
  /\ UNCHANGED <<signInVars, authVars, who, page, edits, troubles>>

\* A navigation takes the page and its requests with it.
Leaves(t) ==
  /\ showing' = [showing EXCEPT ![t] = "closed"]
  /\ who' = [who EXCEPT ![t] = None]
  /\ call' = [call EXCEPT ![t] = [o \in Ops |-> Idle]]
  /\ page' = [page EXCEPT ![t] = Blank]
  /\ UNCHANGED <<edits, troubles>>

Answer(t, o, answer, row) ==
  call' = [call EXCEPT ![t][o] = [@ EXCEPT !.leg = "answered", !.answer = answer, !.row = row]]

\* auth-service serves a request; without a session it is a 401.
Serve(t, o) ==
  /\ call[t][o].leg = "sent"
  /\ LET u == call[t][o].as
     IN  \/ /\ u = None /\ ~(o = "companion" /\ showing[t] = "edit")
            /\ Answer(t, o, "failed", Nothing)
            /\ UNCHANGED authVars
         \/ /\ u # None /\ o = "me"
            /\ \E named \in BOOLEAN : GetMe(u, named)
            /\ Answer(t, o, "ok", Nothing)
         \/ /\ u # None /\ o \in {"demographics", "again"}
            /\ Answer(t, o, "ok", Demographics(u))
            /\ UNCHANGED authVars
         \/ /\ o = "companion" /\ showing[t] = "edit"
            /\ Answer(t, o, "ok", Nothing)
            /\ UNCHANGED authVars
         \/ /\ u # None /\ o = "companion" /\ showing[t] = "profile"
            /\ Answer(t, o, IF HasProfile(u) THEN "ok" ELSE "404", Nothing)
            /\ UNCHANGED authVars
         \/ /\ u # None /\ o = "put"
            /\ IF HasProfile(u) THEN /\ PutDemographics(u, call[t][o].row)
                                     /\ Answer(t, o, "ok", call[t][o].row)
                                ELSE /\ Answer(t, o, "404", Nothing)
                                     /\ UNCHANGED authVars
  /\ UNCHANGED <<signInVars, showing, who, page, edits, troubles>>

\* A request is lost on its way to the service, or its answer on the way back.
Fails(t, o) ==
  /\ troubles < MaxTroubles
  /\ call[t][o].leg \in {"sent", "answered"}
  /\ call[t][o].answer \in {"none", "ok"}
  /\ Answer(t, o, "failed", Nothing)
  /\ troubles' = troubles + 1
  /\ UNCHANGED <<signInVars, authVars, showing, who, page, edits>>

Heard(t, ops) == [call EXCEPT ![t] = [o \in Ops |-> IF o \in ops THEN Idle ELSE call[t][o]]]

-----------------------------------------------------------------------------
\* AuthContext: whatever the failure, the reader counts as signed out.
MeArrives(t) ==
  /\ call[t]["me"].leg = "answered"
  /\ who' = [who EXCEPT ![t] =
       IF call[t]["me"].answer = "ok" THEN call[t]["me"].as ELSE None]
  /\ call' = Heard(t, {"me"})
  /\ UNCHANGED <<signInVars, authVars, showing, page, edits, troubles>>

\* Mutant: the stored travel type is not selected among the radio buttons.
PrefilledNoType(row) == [row EXCEPT !["travelType"] = "default"]

\* The edit form takes the party size from the list, the first number of the
\* stored type, and 1 for a type that is not there: the stored one is lost where
\* that differs.
Prefilled(row) ==
  IF row["travelType"] \in Unmatched THEN [row EXCEPT !["partySize"] = "default"] ELSE row

\* The Promise.all of the profile page and of the edit form: both answers, or
\* the first failure.  What was typed meanwhile is overwritten.
LoadArrives(t) ==
  LET both == {"companion", "demographics"}
      mine == call[t]["demographics"]
  IN  /\ showing[t] \in {"profile", "edit"}
      /\ page[t].load = "pending"
      /\ \/ /\ \A o \in both : call[t][o].answer = "ok"
            /\ page' = [page EXCEPT ![t] = [@ EXCEPT !.load = "ok", !.loaded = mine.row,
                 !.fields = IF showing[t] = "edit" THEN Prefilled(mine.row) ELSE mine.row]]
         \/ /\ \E o \in both : call[t][o].answer \in {"failed", "404"}
            /\ page' = [page EXCEPT ![t].load = "failed"]
      /\ call' = Heard(t, both)
      /\ UNCHANGED <<signInVars, authVars, showing, who, edits, troubles>>

\* The inputs of the two forms, which a checked box disables; a travel type
\* brings its party size.
Typed(row, f) ==
  IF f = "travelType" THEN [row EXCEPT ![f] = "typed", !["partySize"] = "typed"]
  ELSE [row EXCEPT ![f] = "typed"]

Edit(t, f) ==
  /\ edits < MaxEdits
  /\ edits' = edits + 1
  /\ showing[t] \in {"edit", "planForm"}
  /\ ~page[t].checked
  /\ page' = [page EXCEPT ![t].fields = Typed(@, f)]
  /\ UNCHANGED <<signInVars, authVars, showing, who, call, troubles>>

-----------------------------------------------------------------------------
\* onSubmit of the edit form: the inputs of the budgets are required, and
\* nothing is sent without a user in AuthContext; whether the form was ever
\* loaded is not asked.
MaySave(t) == page[t].fields["budget"] # "default" /\ who[t] # None

Save(t) ==
  /\ showing[t] = "edit"
  /\ call[t]["put"].leg = "idle"
  /\ MaySave(t)
  /\ call' = [call EXCEPT ![t]["put"] = [Sent EXCEPT
       !.row = page[t].fields, !.loaded = page[t].loaded]]
  /\ UNCHANGED <<signInVars, authVars, showing, who, page, edits, troubles>>

\* A save that worked leads to the profile page, in the same AuthContext.
SaveArrives(t) ==
  /\ call[t]["put"].leg = "answered"
  /\ IF call[t]["put"].answer = "ok"
     THEN /\ showing' = [showing EXCEPT ![t] = "profile"]
          /\ page' = [page EXCEPT ![t] = Blank]
          /\ call' = [call EXCEPT ![t] = [o \in Ops |->
               IF o \in Loads("profile") THEN Sent ELSE IF o = "me" THEN call[t][o] ELSE Idle]]
     ELSE /\ call' = Heard(t, {"put"})
          /\ UNCHANGED <<showing, page>>
  /\ UNCHANGED <<signInVars, authVars, who, edits, troubles>>

-----------------------------------------------------------------------------
\* The checkbox of the planning form, which only alerts a reader who is not
\* signed in.  Clearing it stops no request.
Check(t, o) ==
  /\ showing[t] = "planForm"
  /\ who[t] # None
  /\ ~page[t].checked
  /\ o \in {"demographics", "again"}
  /\ call[t][o].leg = "idle"
  /\ page' = [page EXCEPT ![t].checked = TRUE]
  /\ call' = [call EXCEPT ![t][o] = Sent]
  /\ UNCHANGED <<signInVars, authVars, showing, who, edits, troubles>>

Uncheck(t) ==
  /\ showing[t] = "planForm"
  /\ page[t].checked
  /\ page' = [page EXCEPT ![t].checked = FALSE]
  /\ UNCHANGED <<signInVars, authVars, showing, who, call, edits, troubles>>

\* Mutant: a failed copy leaves the box checked.
UnusableKept(p) == p

\* No preferences, or no answer: an alert, and the box is cleared.  Purposes,
\* which count as preferences too, go with the travel type here.
Unusable(p) == [p EXCEPT !.checked = FALSE]

PrefsArrive(t, o) ==
  /\ showing[t] = "planForm"
  /\ o \in {"demographics", "again"}
  /\ call[t][o].leg = "answered"
  /\ page' = [page EXCEPT ![t] =
       IF call[t][o].answer = "ok" /\ call[t][o].row["travelType"] # "default"
       THEN [@ EXCEPT !.fields = call[t][o].row] ELSE Unusable(@)]
  /\ call' = Heard(t, {o})
  /\ UNCHANGED <<signInVars, authVars, showing, who, edits, troubles>>

-----------------------------------------------------------------------------
\* PATCH /profile, which no page of the web app sends.
Rename(u) == PatchProfile(u) /\ UNCHANGED <<signInVars, pageVars>>

Signing ==
  \/ \E t \in Tabs : SignInStep(t) /\ Leaves(t) /\ UNCHANGED authVars
  \/ (HandoffExpires \/ SessionExpires) /\ UNCHANGED <<authVars, pageVars>>

Next ==
  \/ Signing
  \/ \E u \in People : Rename(u)
  \/ \E t \in Tabs :
       \/ \E p \in Pages : Open(t, p)
       \/ \E o \in Ops : Serve(t, o) \/ Fails(t, o)
       \/ MeArrives(t) \/ LoadArrives(t)
       \/ \E f \in {"budget", "travelType"} : Edit(t, f)
       \/ Save(t) \/ SaveArrives(t)
       \/ \E o \in {"demographics", "again"} : Check(t, o) \/ PrefsArrive(t, o)
       \/ Uncheck(t)

Spec == Init /\ [][Next]_vars

-----------------------------------------------------------------------------
\* What a user had stored is never lost to a save of a form that had loaded it:
\* a field becomes the default, or takes the value of another account, only by
\* a form whose load had not succeeded, had been answered for another session,
\* or had found the field gone.  The party size that the list does not give is
\* the exception.
PreferencesKept ==
  [][\A u \in People, f \in Fields :
       /\ demographics[u] # NoRow
       /\ demographics[u][f] = u
       /\ demographics'[u][f] \notin {u, "typed"}
       => \/ f = "partySize" /\ u \in Unmatched
          \/ \E t \in Tabs :
               /\ call[t]["put"].leg = "sent" /\ call[t]["put"].as = u
               /\ call'[t]["put"].leg = "answered"
               /\ call[t]["put"].loaded[f] # u]_vars

\* A save by the user of AuthContext finds the row that the foreign key needs,
\* so that "call GET /api/auth/me first" is heard only in another session; and
\* a box that stays checked has filled the form with stored preferences.
FormsAgreeWithTheAccount ==
  \A t \in Tabs :
    /\ call[t]["put"].answer = "404" => call[t]["put"].as # who[t]
    /\ /\ showing[t] = "planForm" /\ page[t].checked
       /\ \A o \in {"demographics", "again"} : call[t][o].leg = "idle"
       => page[t].fields["travelType"] # "default"

=============================================================================
