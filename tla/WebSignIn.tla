------------------------------ MODULE WebSignIn ------------------------------
(***************************************************************************)
(* Signing in: the route handlers start, callback and signout of the web   *)
(* app, which keep what they need between two redirects in three cookies   *)
(* of the browser, and Cognito's hosted page.  All tabs of a browser share *)
(* its cookies.                                                            *)
(***************************************************************************)
EXTENDS Naturals

CONSTANTS
  Tabs,        \* a tab stands for the page it signs in from, too
  Users,       \* the accounts that Cognito knows
  DevUser,     \* the user of the local stack, where there is no Cognito
  None,
  MaxStarts    \* bound: how often a sign-in is started

ASSUME SignInAssumption ==
  DevUser \in Users /\ None \notin Users \cup Tabs /\ MaxStarts \in Nat

Starts == 1..MaxStarts

VARIABLES
  configured,  \* the environment names a Cognito pool
  jar,         \* the cookies si_session, si_pkce_verifier, si_auth_state, si_auth_next
  at,          \* where each tab is
  start,       \* the sign-in that a tab has under way; 0 when none
  carried,     \* the cookies that came with the callback of a tab
  starts,      \* how many sign-ins have been started
  consented,   \* who consented in each of them
  lost         \* why the cookies of a start are no longer in the jar

signInVars == <<configured, jar, at, start, carried, starts, consented, lost>>

Places  == {"page", "cognito", "back", "exchange",
            "declined", "incomplete", "mismatch", "failed"}
Reasons == {"kept", "overwritten", "expired", "completed", "signedOut"}
Errors  == {"declined", "incomplete", "mismatch", "failed"}

SignInTypeOK ==
  /\ configured \in BOOLEAN
  /\ jar \in [session : Users \cup {None}, verifier : {0} \cup Starts,
              state : {0} \cup Starts, next : Tabs \cup {None}]
  /\ at \in [Tabs -> Places]
  /\ start \in [Tabs -> {0} \cup Starts]
  /\ carried \in [Tabs -> [verifier : {0} \cup Starts, next : Tabs \cup {None}]]
  /\ starts \in {0} \cup Starts
  /\ consented \in [Starts -> Users \cup {None}]
  /\ lost \in [Starts -> Reasons]

\* A session may be left from an earlier visit.
SignInInit ==
  /\ configured \in BOOLEAN
  /\ \E u \in Users \cup {None} :
       jar = [session |-> u, verifier |-> 0, state |-> 0, next |-> None]
  /\ at = [t \in Tabs |-> "page"]
  /\ start = [t \in Tabs |-> 0]
  /\ carried = [t \in Tabs |-> [verifier |-> 0, next |-> None]]
  /\ starts = 0
  /\ consented = [f \in Starts |-> None]
  /\ lost = [f \in Starts |-> "kept"]

-----------------------------------------------------------------------------
Emptied(j) == [j EXCEPT !.verifier = 0, !.state = 0, !.next = None]

\* The cookies of the handoff, if there are any, go for that reason.
Lose(reason) ==
  lost' = [f \in Starts |-> IF f = jar.state THEN reason ELSE lost[f]]

Go(t, place) == at' = [at EXCEPT ![t] = place]

\* Mutant: si_auth_next is set only when there is none yet.
HandoffKeepsNext(f, t) ==
  [jar EXCEPT !.verifier = f, !.state = f,
              !.next = IF jar.next = None THEN t ELSE jar.next]

\* GET /auth/start sets the three cookies, whatever was there.
Handoff(f, t) == [jar EXCEPT !.verifier = f, !.state = f, !.next = t]

Start(t) ==
  /\ configured
  /\ at[t] \in {"page"} \cup Errors
  /\ starts < MaxStarts
  /\ starts' = starts + 1
  /\ start' = [start EXCEPT ![t] = starts + 1]
  /\ jar' = Handoff(starts + 1, t)
  /\ Lose("overwritten")
  /\ Go(t, "cognito")
  /\ UNCHANGED <<configured, carried, consented>>

\* Without a pool, start itself signs the developer in and goes to the page.
StartLocally(t) ==
  /\ ~configured
  /\ at[t] = "page"
  /\ jar' = [jar EXCEPT !.session = DevUser]
  /\ UNCHANGED <<configured, at, start, carried, starts, consented, lost>>

\* The hosted page sends the browser back with a code, or with an error, for
\* which the callback only shows a page.
Consent(t, u) ==
  /\ at[t] = "cognito"
  /\ consented' = [consented EXCEPT ![start[t]] = u]
  /\ Go(t, "back")
  /\ UNCHANGED <<configured, jar, start, carried, starts, lost>>

Decline(t) ==
  /\ at[t] = "cognito"
  /\ Go(t, "declined")
  /\ UNCHANGED <<configured, jar, start, carried, starts, consented, lost>>

-----------------------------------------------------------------------------
\* GET /auth/callback: the cookies of the request, then the state.
CallbackIncomplete(t) ==
  /\ at[t] = "back"
  /\ jar.verifier = 0 \/ jar.state = 0
  /\ Go(t, "incomplete")
  /\ UNCHANGED <<configured, jar, start, carried, starts, consented, lost>>

\* Mutant: the error page clears the cookies, which belong to another tab.
RefusedCookiesCleared == Emptied(jar)

\* The error page leaves the cookies of the newer start alone.
RefusedCookies == jar

CallbackMismatch(t) ==
  /\ at[t] = "back"
  /\ jar.verifier # 0 /\ jar.state # 0
  /\ jar.state # start[t]
  /\ jar' = RefusedCookies
  /\ Go(t, "mismatch")
  /\ UNCHANGED <<configured, start, carried, starts, consented, lost>>

CallbackAccepted(t) ==
  /\ at[t] = "back"
  /\ jar.verifier # 0 /\ jar.state = start[t]
  /\ carried' = [carried EXCEPT ![t] = [verifier |-> jar.verifier, next |-> jar.next]]
  /\ Go(t, "exchange")
  /\ UNCHANGED <<configured, jar, start, starts, consented, lost>>

\* exchangeCodeForTokens: Cognito takes a code only with the verifier of the
\* same start.  The answer sets the session, clears whatever is in the three
\* cookies by then, and redirects to the page in si_auth_next.
Exchanged(t) ==
  /\ at[t] = "exchange"
  /\ carried[t].verifier = start[t]
  /\ jar' = [Emptied(jar) EXCEPT !.session = consented[start[t]]]
  /\ Lose("completed")
  /\ Go(t, "page")
  /\ UNCHANGED <<configured, start, carried, starts, consented>>

ExchangeFails(t) ==
  /\ at[t] = "exchange"
  /\ Go(t, "failed")
  /\ UNCHANGED <<configured, jar, start, carried, starts, consented, lost>>

\* GET /auth/signout, which a page may well ask for without a session: it is
\* the one of another tab, or has expired.  It leads home by way of Cognito.
SignOut(t) ==
  /\ at[t] \in {"page"} \cup Errors
  /\ jar' = [Emptied(jar) EXCEPT !.session = None]
  /\ Lose("signedOut")
  /\ Go(t, "page")
  /\ UNCHANGED <<configured, start, carried, starts, consented>>

\* What the browser drops by itself.
HandoffExpires ==
  /\ jar.state # 0
  /\ jar' = Emptied(jar)
  /\ Lose("expired")
  /\ UNCHANGED <<configured, at, start, carried, starts, consented>>

SessionExpires ==
  /\ jar.session # None
  /\ jar' = [jar EXCEPT !.session = None]
  /\ UNCHANGED <<configured, at, start, carried, starts, consented, lost>>

SignInStep(t) ==
  \/ Start(t) \/ StartLocally(t) \/ Decline(t)
  \/ \E u \in Users : Consent(t, u)
  \/ CallbackIncomplete(t) \/ CallbackMismatch(t) \/ CallbackAccepted(t)
  \/ Exchanged(t) \/ ExchangeFails(t) \/ SignOut(t)

-----------------------------------------------------------------------------
\* A callback that is accepted exchanges its code with the verifier of its own
\* start, so that Cognito can agree, and leads back to the page that the
\* sign-in was started from, however many tabs sign in at once.
ExchangeFitsItsStart ==
  \A t \in Tabs : at[t] = "exchange" =>
    carried[t] = [verifier |-> start[t], next |-> t]

\* The callback refuses a sign-in only for a reason the reader can understand:
\* its cookies ran out, went with a sign-out, were cleared when the sign-in of
\* another tab completed, or gave way to those of a newer start.  A refusal
\* never costs another tab its sign-in.
FailuresAreExplained ==
  \A t \in Tabs :
    /\ at[t] \in {"mismatch", "incomplete"} => lost[start[t]] # "kept"
    /\ at[t] = "mismatch" => start[t] < starts

=============================================================================
