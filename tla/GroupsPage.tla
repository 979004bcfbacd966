----------------------------- MODULE GroupsPage -----------------------------
(***************************************************************************)
(* The groups page: its list is loaded on mount and after a join, and      *)
(* patched in place after a create, an invite and a delete, while other    *)
(* people change the same groups.  tools-service answers each request at   *)
(* once here; ToolsGroups shows what lies behind its answers.              *)
(***************************************************************************)
EXTENDS Naturals, Sequences, Lists

CONSTANTS
  MaxGroups,
  MaxRevision,  \* bound: changes of the members of a group
  MaxMishaps,   \* bound: requests that fail, and changes by other people
  MaxSent       \* bound: requests that the reader causes

ASSUME GroupsAssumption ==
  /\ MaxGroups \in Nat /\ MaxRevision \in Nat \ {0}
  /\ MaxMishaps \in Nat /\ MaxSent \in Nat \ {0}

VARIABLES
  group,    \* per group its revision, 0 when it is not visible, and its owner
  req,      \* the requests of the page
  list,     \* the groups on the page; unloaded, or a sequence
  share,    \* the group selected in the share panel; 0 is "no group"
  doubt,    \* the groups about which the list may be wrong
  sent, mishaps

groupsVars == <<group, req, list, share, doubt, sent, mishaps>>

Groups == 1..MaxGroups
Cards  == [id : Groups, rev : 1..MaxRevision]

\* What can be under way: two loads, those of a mount in StrictMode, or a load and
\* the refresh after a join; one request of each form, whose button is disabled
\* meanwhile (the one of the join until the refresh is over, which is left open);
\* and for each card an invitation and a deletion.  A card invites one at a time; a
\* second deletion of it is answered 404, and changes nothing.
ToLoad      == <<"load", 0>>
ToLoadAgain == <<"again", 0>>
ToCreate    == <<"create", 0>>
ToJoin      == <<"join", 0>>
ToShare     == <<"share", 0>>
ToInvite(g) == <<"invite", g>>
ToDelete(g) == <<"delete", g>>

Loads   == {ToLoad, ToLoadAgain}
Invites == {ToInvite(g) : g \in Groups}
Deletes == {ToDelete(g) : g \in Groups}
Changes == {ToCreate, ToJoin} \cup Invites \cup Deletes
Kinds   == Loads \cup Changes \cup {ToShare}
Idle    == [leg |-> "idle", g |-> 0, answer |-> <<>>, over |-> {}]
Calls   == [leg : {"idle", "sent", "served", "failed"}, g : {0} \cup Groups,
            answer : Seq(Cards), over : SUBSET Groups]

GroupsTypeOK ==
  /\ group \in [Groups -> [rev : 0..MaxRevision, mine : BOOLEAN, used : BOOLEAN]]
  /\ req \in [Kinds -> Calls]
  /\ list \in [loaded : BOOLEAN, cards : Seq(Cards)]
  /\ share \in {0} \cup Groups /\ doubt \subseteq Groups
  /\ sent \in 0..MaxSent /\ mishaps \in 0..MaxMishaps

\* One group of the reader, one of somebody else, and ids for new ones.
GroupsInit ==
  /\ \E r \in {0, 1} :
       group = [g \in Groups |-> [rev |-> IF g = 1 THEN 1 ELSE IF g = 2 THEN r ELSE 0,
                                  mine |-> g # 2, used |-> g <= 2]]
  /\ req = [k \in Kinds |-> Idle]
  /\ list = [loaded |-> FALSE, cards |-> <<>>]
  /\ share = 0
  /\ doubt = {}
  /\ sent = 0 /\ mishaps = 0

-----------------------------------------------------------------------------
\* GET /groups: the newest first.
Visible == Filter([i \in Groups |-> MaxGroups + 1 - i], LAMBDA g : group[g].rev > 0)
Listed  == [i \in DOMAIN Visible |-> [id |-> Visible[i], rev |-> group[Visible[i]].rev]]
Card(g, rev) == <<[id |-> g, rev |-> rev]>>

\* A group that changes while a load is under way is in doubt after it.
Doubting(reqs, gs) ==
  [k \in Kinds |-> IF k \in Loads /\ reqs[k].leg \in {"sent", "served"}
                   THEN [reqs[k] EXCEPT !.over = @ \cup gs] ELSE reqs[k]]

Changing(reqs) == {reqs[k].g : k \in {c \in Changes : reqs[c].leg # "idle"}}
Loading        == \E k \in Loads : req[k].leg # "idle"

SentLoad(reqs) == [Idle EXCEPT !.leg = "sent", !.over = Changing(reqs)]

\* The effect of the page, in a development build twice.
Mount ==
  /\ sent = 0
  /\ sent' = 1
  /\ \E twice \in SUBSET {ToLoadAgain} :
       req' = [k \in Kinds |-> IF k \in {ToLoad} \cup twice THEN SentLoad(req) ELSE req[k]]
  /\ UNCHANGED <<group, list, share, doubt, mishaps>>

Send(k, g) ==
  /\ sent \in 1..(MaxSent - 1)
  /\ sent' = sent + 1
  /\ req[k].leg = "idle"
  /\ req' = Doubting([req EXCEPT ![k] = [Idle EXCEPT !.leg = "sent", !.g = g]], {g})
  /\ doubt' = IF Loading THEN doubt \cup {g} ELSE doubt
  /\ UNCHANGED <<group, list, share, mishaps>>

OnPage == {list.cards[i].id : i \in DOMAIN list.cards}

\* The forms and cards of the page; a card has its buttons for the owner only.
NextGroup == CHOOSE g \in Groups : ~group[g].used /\ \A h \in 1..(g - 1) : group[h].used

Create    == (\E g \in Groups : ~group[g].used) /\ Send(ToCreate, NextGroup)
Join(g)   == ~group[g].mine /\ Send(ToJoin, g)
Invite(g) == g \in OnPage /\ group[g].mine /\ Send(ToInvite(g), g)
Delete(g) == g \in OnPage /\ group[g].mine /\ Send(ToDelete(g), g)

\* The panel selects the first group when it has none, and keeps its choice,
\* also of a group that is no longer listed.
Select ==
  /\ share = 0
  /\ list.cards # <<>>
  /\ share' = list.cards[1].id
  /\ UNCHANGED <<group, req, list, doubt, sent, mishaps>>

\* ... or the reader does, a group of the page or none.
Choose(g) ==
  /\ g \in {0} \cup OnPage
  /\ share' = g
  /\ UNCHANGED <<group, req, list, doubt, sent, mishaps>>

Share == share # 0 /\ Send(ToShare, share)

-----------------------------------------------------------------------------
\* tools-service.  Somebody who was invited joins once, into a group that may
\* already be on the list.
Change(g, rev) == group' = [group EXCEPT ![g].rev = rev, ![g].used = TRUE]

Answered(k, leg, answer) ==
  req' = [req EXCEPT ![k] = [@ EXCEPT !.leg = leg, !.answer = answer]]

Served(k) ==
  LET g == req[k].g
  IN  /\ req[k].leg = "sent"
      /\ \/ /\ k \in Loads
            /\ Answered(k, "served", Listed)
            /\ UNCHANGED group
         \/ /\ k = ToCreate
            /\ Change(g, 1)
            /\ Answered(k, "served", Card(g, 1))
         \/ /\ k \in {ToJoin} \cup Invites
            /\ group[g].rev \in (IF k = ToJoin THEN 0 ELSE 1)..(MaxRevision - 1)
            /\ Change(g, group[g].rev + 1)
            /\ Answered(k, "served", Card(g, group[g].rev + 1))
         \/ /\ k \in Deletes /\ group[g].rev > 0
            /\ Change(g, 0)
            /\ Answered(k, "served", <<>>)
         \/ /\ k = ToShare /\ group[g].rev > 0
            /\ Answered(k, "served", <<>>)
            /\ UNCHANGED group
         \/ /\ k \in {ToJoin, ToShare} \cup Invites \cup Deletes
            /\ group[g].rev \in {0, MaxRevision}
            /\ Answered(k, "failed", <<>>)
            /\ UNCHANGED group
      /\ UNCHANGED <<list, share, doubt, sent, mishaps>>

\* A request gets lost, or its answer, after which the list may be wrong.
Lost(k) ==
  /\ req[k].leg \in {"sent", "served"}
  /\ mishaps < MaxMishaps
  /\ mishaps' = mishaps + 1
  /\ LET gs == IF k \in Changes THEN {req[k].g} ELSE {}
     IN  /\ req' = Doubting([req EXCEPT ![k] = [@ EXCEPT !.leg = "failed"]], gs)
         /\ doubt' = doubt \cup gs
  /\ UNCHANGED <<group, list, share, sent>>

\* Other people: a member joins, the reader is invited, a group goes.
OthersChange(g) ==
  /\ group[g].used
  /\ \/ /\ group[g].rev < MaxRevision
        /\ group[g].mine => group[g].rev > 0
        /\ Change(g, group[g].rev + 1)
     \/ /\ ~group[g].mine /\ group[g].rev > 0
        /\ Change(g, 0)
  /\ mishaps < MaxMishaps
  /\ mishaps' = mishaps + 1
  /\ doubt' = doubt \cup {g}
  /\ req' = Doubting(req, {g})
  /\ UNCHANGED <<list, share, sent>>

-----------------------------------------------------------------------------
\* setGroups of a load: whatever comes last wins.  A failed one shows an error
\* and leaves the list as it was.
LoadHeard(k) ==
  /\ k \in Loads
  /\ \/ /\ req[k].leg = "served"
        /\ list' = [loaded |-> TRUE, cards |-> req[k].answer]
        /\ doubt' = req[k].over
     \/ /\ req[k].leg = "failed"
        /\ doubt' = Groups
        /\ UNCHANGED list
  /\ req' = [req EXCEPT ![k] = Idle]
  /\ UNCHANGED <<group, share, sent, mishaps>>

CreateHeard ==
  /\ req[ToCreate].leg = "served"
  /\ list' = [loaded |-> TRUE, cards |-> req[ToCreate].answer \o list.cards]
  /\ req' = [req EXCEPT ![ToCreate] = Idle]
  /\ UNCHANGED <<group, share, doubt, sent, mishaps>>

\* Mutant: the joined group is not fetched.
RefreshNever(reqs) == reqs

\* refreshGroups after a join, in the slot that is free.
Refresh(reqs) ==
  LET free == IF reqs[ToLoad].leg = "idle" THEN ToLoad ELSE ToLoadAgain
  IN  [reqs EXCEPT ![free] = SentLoad(reqs)]

JoinHeard ==
  /\ req[ToJoin].leg = "served"
  /\ \E k \in Loads : req[k].leg = "idle"
  /\ req' = Refresh([req EXCEPT ![ToJoin] = Idle])
  /\ UNCHANGED <<group, list, share, doubt, sent, mishaps>>

\* onGroupChanged and onGroupDeleted patch the cards that are there.
InviteHeard(g) ==
  /\ req[ToInvite(g)].leg = "served"
  /\ list' = [list EXCEPT !.cards = [i \in DOMAIN @ |->
       IF list.cards[i].id = g THEN req[ToInvite(g)].answer[1] ELSE list.cards[i]]]
  /\ req' = [req EXCEPT ![ToInvite(g)] = Idle]
  /\ UNCHANGED <<group, share, doubt, sent, mishaps>>

DeleteHeard(g) ==
  /\ req[ToDelete(g)].leg = "served"
  /\ list' = [list EXCEPT !.cards = Filter(@, LAMBDA c : c.id # g)]
  /\ req' = [req EXCEPT ![ToDelete(g)] = Idle]
  /\ UNCHANGED <<group, share, doubt, sent, mishaps>>

\* The message of a failure, or the link of a share.
Told(k) ==
  /\ k \notin Loads
  /\ req[k].leg \in (IF k = ToShare THEN {"failed", "served"} ELSE {"failed"})
  /\ req' = [req EXCEPT ![k] = Idle]
  /\ UNCHANGED <<group, list, share, doubt, sent, mishaps>>

GroupsStep ==
  \/ Mount \/ Create \/ Select \/ Share
  \/ \E g \in Groups : Join(g) \/ Invite(g) \/ Delete(g) \/ OthersChange(g)
  \/ \E g \in {0} \cup Groups : Choose(g)
  \/ \E k \in Kinds : Served(k) \/ Lost(k) \/ LoadHeard(k) \/ Told(k)
  \/ CreateHeard \/ JoinHeard \/ \E g \in Groups : InviteHeard(g) \/ DeleteHeard(g)

GroupsSpec == GroupsInit /\ [][GroupsStep]_groupsVars

-----------------------------------------------------------------------------
\* The cards show g once, and there it has these members; or do not show it.
Shows(cards, g, rev) ==
  \E i \in DOMAIN cards :
    /\ cards[i] = [id |-> g, rev |-> rev]
    /\ \A j \in DOMAIN cards : cards[j].id = g => j = i

Lacks(cards, g) == \A i \in DOMAIN cards : cards[i].id # g

Tells(cards, g) ==
  IF group[g].rev > 0 THEN Shows(cards, g, group[g].rev) ELSE Lacks(cards, g)

\* When nothing is under way, the page shows each group once if it is visible,
\* with its members as they are, and not at all if it is not; only a group that
\* changed while a load was under way, that somebody else changed, or whose
\* answer was lost, may be missing, stale or shown twice, and a load that goes
\* undisturbed puts that right.
ListIsTrue ==
  list.loaded /\ (\A k \in Kinds : req[k].leg = "idle") =>
    \A g \in Groups \ doubt : Tells(list.cards, g)

=============================================================================
