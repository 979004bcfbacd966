------------------------------- MODULE MCPages -------------------------------
(***************************************************************************)
(* One of four visits: the pages of saved trips in two tabs, with a plan   *)
(* that is not in the order of its times; the groups page in one tab; the  *)
(* planning form; or the answer to a plan, from the model to a share.      *)
(***************************************************************************)
EXTENDS TripPages, GroupsPage, PlanForm, PlanAnswer, TLC

VARIABLE visit

Activity(name, time) == [act |-> name, at |-> time]
MCPlans == {<<Activity("museum", 2), Activity("lunch", 1), Activity("walk", 3)>>}

MCHub == [c \in {"Japan", "Kiribati"} |-> IF c = "Japan" THEN "NRT" ELSE ""]

MCRawDays ==
  { RawDay("mon", "20", "-", "-"), RawDay("tue", "-", "25", "15"),
    RawDay("wed", "-", "-", "-"),  RawDay("-", "30", "-", "-") }

\* A long flight there and back, one whose return is written with days, and a
\* short one without a return.
Leg(days, minutes) == [days |-> days, minutes |-> minutes]
Flight(price, outbound, return, stops) ==
  [price |-> price, outbound |-> outbound, return |-> return, stops |-> stops, whole |-> TRUE]
MCOfferLists ==
  LET long  == Flight(1, Leg(0, 2050), Leg(0, 700), 2)
      split == Flight(3, Leg(0, 1400), Leg(1, 90), 0)
      short == Flight(2, Leg(0, 600), Leg(0, 0), 0)
  IN  {<<long, split, short>>, <<long, [short EXCEPT !.whole = FALSE]>>}

MCInit ==
  /\ visit \in {"trips", "groups", "form", "answer"}
  /\ TripInit /\ GroupsInit /\ FormInit /\ AnswerInit
  /\ visit # "trips" => created = 0 /\ saved = [id \in Trips |-> None]
  /\ visit # "groups" => group[2].rev = 0
  /\ visit # "form" => stored = {}
  /\ visit # "answer" => raw.days = <<>> /\ raw.shape = "other" /\ Len(offers) = 2

MCNext ==
  \/ /\ visit = "trips"
     /\ \E t \in Tabs : TripStep(t)
     /\ UNCHANGED <<visit, groupsVars, formVars, answerVars>>
  \/ /\ visit = "groups"
     /\ GroupsStep
     /\ UNCHANGED <<visit, tripVars, formVars, answerVars>>
  \/ /\ visit = "form"
     /\ FormStep
     /\ UNCHANGED <<visit, tripVars, groupsVars, answerVars>>
  \/ /\ visit = "answer"
     /\ AnswerStep
     /\ UNCHANGED <<visit, tripVars, groupsVars, formVars>>

MCSpec == MCInit /\ [][MCNext]_<<visit, tripVars, groupsVars, formVars, answerVars>>

Symmetry == Permutations(Tabs)
=============================================================================
