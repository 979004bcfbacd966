--------------------------- MODULE MCAccountPages ---------------------------
(***************************************************************************)
(* Two tabs of one browser and two accounts, one of them the seeded user   *)
(* of the local stack, whose stored travel type is no row of the list.     *)
(* Either both tabs sign in and out in every way, away from the pages; or  *)
(* the first has a page and the second signs in as somebody, at most once; *)
(* or each has the form that edits the preferences, in one session.        *)
(***************************************************************************)
EXTENDS AccountPages, TLC

CONSTANTS t1, t2, u1, u2

VARIABLE visit   \* the page of each tab

Visits == { (t1 :> p) @@ (t2 :> "closed") : p \in Pages \cup {"closed"} }
          \cup { [t \in {t1, t2} |-> "edit"] }

SigningIn == visit[t1] = "closed"
Switching == visit[t1] # "closed" /\ visit[t2] = "closed"

MCInit ==
  /\ Init
  /\ visit \in Visits
  /\ IF SigningIn THEN jar.session = None
                  ELSE configured /\ jar.session # None
  /\ ~Switching => \A u \in People : jar.session # u => users[u] = NoRow

MCNext ==
  /\ Next
  /\ UNCHANGED visit
  /\ \A t \in Tabs : showing[t] = "closed" => showing'[t] \in {"closed", visit[t]}
  /\ SigningIn => UNCHANGED authVars
  /\ Switching => at'[t1] = "page" /\ at'[t2] \notin Errors /\ starts' <= 1
  /\ ~SigningIn /\ ~Switching => UNCHANGED signInVars
  /\ visit[t1] # "profile" => \A u \in People : users'[u] # "edited"

MCSpec == MCInit /\ [][MCNext]_<<vars, visit>>
=============================================================================
