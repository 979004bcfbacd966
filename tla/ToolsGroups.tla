----------------------------- MODULE ToolsGroups -----------------------------
(***************************************************************************)
(* tools-service: groups, invitations and shares (groups.routes.ts,        *)
(* shares.routes.ts, toolsRepository.ts).  A request is a sequence of SQL  *)
(* statements, each of which commits by itself: there is no transaction,   *)
(* and any other request may run between two of them.  The constraints of  *)
(* db/init/tools-service.sql are part of the statements.                   *)
(*                                                                         *)
(* A group is named after the request that creates it, an invite token and *)
(* a share token after the request that generates it; Seed names those of  *)
(* the seeded group.                                                       *)
(***************************************************************************)
EXTENDS Naturals

CONSTANTS
  Requests,
  Users, Emails,
  Claim,        \* [Users -> Emails \cup {None}]: the email claim, if any
  SeedOwner,    \* owner of the seeded group
  SeedJoined,   \* address of its member ...
  SeedInvited,  \* ... and of the one who is only invited
  Seed, None,
  Recipients,   \* bound: the lists of recipients that a share may give
  MaxFaults     \* bound: statements or replies that fail, and crashes

ASSUME GroupsAssumption ==
  /\ Claim \in [Users -> Emails \cup {None}]
  /\ SeedOwner \in Users /\ {SeedJoined, SeedInvited} \subseteq Emails
  /\ SeedJoined # SeedInvited
  /\ Seed \notin Requests /\ None \notin Requests \cup Users \cup Emails \cup {Seed}
  /\ Recipients \subseteq SUBSET Emails
  /\ MaxFaults \in Nat

VARIABLES
  groups,    \* rows of groups
  owner,     \* owner_user_id of each group that was ever created
  members,   \* rows of group_members
  shares,    \* rows of itinerary_shares
  pc,        \* the statement each request is at
  req,       \* what it asks for
  owned,     \* the group it names is the caller's own
  won,       \* the group whose invitation it redeemed
  listed,    \* addresses that the sharer listed
  audience,  \* addresses a share is to be mailed to
  answer,    \* its HTTP status
  mailed,    \* invite tokens published for email-service
  heard,     \* addresses each share was published for
  joined,    \* who ever joined: [group, email]
  trip,      \* itinerary-service has the itinerary that is shared (one is enough:
             \* nothing that happens to a share depends on another itinerary)
  failed,    \* requests one of whose statements or replies failed
  faults

rowVars == <<groups, owner, members, shares, joined>>
outVars == <<mailed, heard>>
locVars == <<req, owned, won, listed, audience>>
envVars == <<trip, failed, faults>>
vars    == <<rowVars, pc, locVars, answer, outVars, envVars>>

Ids == Requests \cup {Seed}

Member(g, e, status, u, t) ==
  [group |-> g, email |-> e, status |-> status, user |-> u, token |-> t]

Members ==
  [group : Ids, email : Emails, status : {"invited", "joined"},
   user : Users \cup {None}, token : Ids \cup {None}]

Asked(kind, u, g, e, t) == [kind |-> kind, user |-> u, group |-> g, email |-> e, token |-> t]

Nothing == Asked("none", None, None, None, None)

Requested ==
  [kind : {"none", "create", "invite", "join", "share", "open", "delete"}, user : Users \cup {None},
   group : Ids \cup {None}, email : Emails \cup {None}, token : Ids \cup {None}]

Running == {"inviteCheck", "inviteInsert", "inviteNotify", "inviteShow", "joinShow",
            "shareMembers", "shareAudience", "shareInsert", "shareNotify", "openFetch", "reply"}

(* Members belong to groups that exist, and an address to a group once.    *)
TypeOK ==
  /\ groups \in SUBSET Ids
  /\ owner \in [Ids -> Users \cup {None}]
  /\ members \in SUBSET Members
  /\ \A m \in members : m.group \in groups
  /\ \A m, n \in members : m.group = n.group /\ m.email = n.email => m = n
  /\ shares \in SUBSET [token : Requests, group : groups \cup {None}]
  /\ pc \in [Requests -> Running \cup {"new", "done"}]
  /\ req \in [Requests -> Requested]
  /\ owned \in [Requests -> BOOLEAN]
  /\ won \in [Requests -> Ids \cup {None}]
  /\ listed \in [Requests -> SUBSET Emails]
  /\ audience \in [Requests -> SUBSET Emails]
  /\ answer \in [Requests -> {0, 200, 201, 403, 404, 409, 500, 502}]
  /\ mailed \in SUBSET Requests
  /\ heard \in [Requests -> SUBSET Emails]
  /\ joined \in SUBSET [group : Ids, email : Emails]
  /\ trip \in BOOLEAN
  /\ failed \in SUBSET Requests
  /\ faults \in 0..MaxFaults

Init ==
  /\ groups = {Seed}
  /\ owner = [g \in Ids |-> IF g = Seed THEN SeedOwner ELSE None]
  /\ members = {Member(Seed, SeedJoined, "joined", None, None),
                Member(Seed, SeedInvited, "invited", None, Seed)}
  /\ shares = {}
  /\ pc = [r \in Requests |-> "new"]
  /\ req = [r \in Requests |-> Nothing]
  /\ owned = [r \in Requests |-> FALSE]
  /\ won = [r \in Requests |-> None]
  /\ listed = [r \in Requests |-> {}]
  /\ audience = [r \in Requests |-> {}]
  /\ answer = [r \in Requests |-> 0]
  /\ mailed = {}
  /\ heard = [r \in Requests |-> {}]
  /\ joined = {[group |-> Seed, email |-> SeedJoined]}
  /\ trip \in BOOLEAN
  /\ failed = {}
  /\ faults = 0

-----------------------------------------------------------------------------
(* How a step of a request ends: at its next statement or with an answer.  *)

Goto(r, label) == pc' = [pc EXCEPT ![r] = label] /\ UNCHANGED answer

Answer(r, code) ==
  /\ pc' = [pc EXCEPT ![r] = "done"]
  /\ answer' = [answer EXCEPT ![r] = code]

Ask(r, asked) == pc[r] = "new" /\ req' = [req EXCEPT ![r] = asked]

MemberOf(g, e) == {m \in members : m.group = g /\ m.email = e}

-----------------------------------------------------------------------------
(* POST /groups.                                                           *)
CreateGroup(r, u) ==
  /\ Ask(r, Asked("create", u, r, None, None))
  /\ groups' = groups \cup {r}
  /\ owner' = [owner EXCEPT ![r] = u]
  /\ Goto(r, "reply")
  /\ UNCHANGED <<members, shares, joined, owned, won, listed, audience, outVars, envVars>>

-----------------------------------------------------------------------------
(* POST /groups/:id/invites.                                               *)

InviteLookup(r, u, g, e) ==
  /\ Ask(r, Asked("invite", u, g, e, None))
  /\ CASE g \notin groups -> Answer(r, 404)
       [] g \in groups /\ owner[g] # u -> Answer(r, 403)
       [] OTHER -> Goto(r, "inviteCheck")
  /\ UNCHANGED <<rowVars, owned, won, listed, audience, outVars, envVars>>

InviteCheckMails(r) ==
  /\ pc[r] = "inviteCheck"
  /\ IF MemberOf(req[r].group, req[r].email) # {}
     THEN Answer(r, 409) /\ UNCHANGED mailed
     ELSE Goto(r, "inviteInsert") /\ mailed' = mailed \cup {r}
  /\ UNCHANGED <<rowVars, locVars, heard, envVars>>

(* findMemberByEmail.                                                      *)
InviteCheck(r) ==
  /\ pc[r] = "inviteCheck"
  /\ IF MemberOf(req[r].group, req[r].email) # {}
     THEN Answer(r, 409)
     ELSE Goto(r, "inviteInsert")
  /\ UNCHANGED <<rowVars, locVars, outVars, envVars>>

(* insertInvitedMember.  UNIQUE (group_id, email) is mapped to 409, the    *)
(* missing group of the foreign key is not mapped.                         *)
InviteInsertUnmapped(r) ==
  /\ pc[r] = "inviteInsert"
  /\ IF req[r].group \notin groups \/ MemberOf(req[r].group, req[r].email) # {}
     THEN Answer(r, 500) /\ UNCHANGED members
     ELSE Goto(r, "inviteNotify") /\
          members' = members \cup {Member(req[r].group, req[r].email, "invited", None, r)}
  /\ UNCHANGED <<groups, owner, shares, joined, locVars, outVars, envVars>>

InviteInsert(r) ==
  /\ pc[r] = "inviteInsert"
  /\ LET g == req[r].group
         e == req[r].email IN
     \/ g \notin groups /\ Answer(r, 500) /\ UNCHANGED members
     \/ g \in groups /\ MemberOf(g, e) # {} /\ Answer(r, 409) /\ UNCHANGED members
     \/ /\ g \in groups /\ MemberOf(g, e) = {}
        /\ members' = members \cup {Member(g, e, "invited", None, r)}
        /\ Goto(r, "inviteNotify")
  /\ UNCHANGED <<groups, owner, shares, joined, locVars, outVars, envVars>>

(* group.invited is published or, when RabbitMQ is away, dropped.          *)
InviteNotify(r) ==
  /\ pc[r] = "inviteNotify"
  /\ mailed' \in {mailed, mailed \cup {r}}
  /\ Goto(r, "inviteShow")
  /\ UNCHANGED <<rowVars, locVars, heard, envVars>>

InviteShow(r) ==
  /\ pc[r] = "inviteShow"
  /\ Answer(r, 201)
  /\ UNCHANGED <<rowVars, locVars, outVars, envVars>>

-----------------------------------------------------------------------------
(* POST /groups/join.  What it answers is the group, or null if the group  *)
(* has been deleted by then: bodies are not modelled.                      *)

JoinMemberUnguarded(r, u, t) ==
  /\ Ask(r, Asked("join", u, None, None, t))
  /\ \E m \in members :
       /\ m.token = t
       /\ members' = (members \ {m}) \cup {[m EXCEPT !.status = "joined", !.user = u]}
       /\ won' = [won EXCEPT ![r] = m.group]
       /\ joined' = joined \cup {[group |-> m.group, email |-> m.email]}
  /\ Goto(r, "joinShow")
  /\ UNCHANGED <<groups, owner, shares, owned, listed, audience, outVars, envVars>>

(* joinMemberByToken: the guard is inside the UPDATE, which nulls the      *)
(* token.                                                                  *)
JoinMember(r, u, t) ==
  /\ Ask(r, Asked("join", u, None, None, t))
  /\ \E m \in members :
       /\ m.token = t /\ m.status = "invited"
       /\ members' = (members \ {m}) \cup {Member(m.group, m.email, "joined", u, None)}
       /\ won' = [won EXCEPT ![r] = m.group]
       /\ joined' = joined \cup {[group |-> m.group, email |-> m.email]}
  /\ Goto(r, "joinShow")
  /\ UNCHANGED <<groups, owner, shares, owned, listed, audience, outVars, envVars>>

JoinRefused(r, u, t) ==
  /\ Ask(r, Asked("join", u, None, None, t))
  /\ \A m \in members : ~(m.token = t /\ m.status = "invited")
  /\ Answer(r, 404)
  /\ UNCHANGED <<rowVars, owned, won, listed, audience, outVars, envVars>>

JoinShow(r) ==
  /\ pc[r] = "joinShow"
  /\ Answer(r, 200)
  /\ UNCHANGED <<rowVars, locVars, outVars, envVars>>

-----------------------------------------------------------------------------
(* POST /shares.                                                           *)

(* To the addresses of S only ...                                          *)
ShareDirectly(r, u, S) ==
  /\ S # {}
  /\ Ask(r, Asked("share", u, None, None, None))
  /\ listed' = [listed EXCEPT ![r] = S]
  /\ audience' = [audience EXCEPT ![r] = S]
  /\ Goto(r, "shareInsert")
  /\ UNCHANGED <<rowVars, owned, won, outVars, envVars>>

(* ... or to a group as well, whose row comes first, then its members.     *)
ShareLookup(r, u, g, S) ==
  /\ Ask(r, Asked("share", u, g, None, None))
  /\ listed' = [listed EXCEPT ![r] = S]
  /\ audience' = [audience EXCEPT ![r] = S]
  /\ owned' = [owned EXCEPT ![r] = owner[g] = u]
  /\ IF g \in groups THEN Goto(r, "shareMembers") ELSE Answer(r, 404)
  /\ UNCHANGED <<rowVars, won, outVars, envVars>>

(* The caller is the owner or has a member row, joined or only invited.    *)
ShareMembers(r) ==
  /\ pc[r] = "shareMembers"
  /\ LET u == req[r].user IN
     IF \/ owned[r]
        \/ \E m \in members : m.group = req[r].group /\ (m.user = u \/ m.email = Claim[u])
     THEN Goto(r, "shareAudience")
     ELSE Answer(r, 404)
  /\ UNCHANGED <<rowVars, locVars, outVars, envVars>>

(* listJoinedMemberEmails.                                                 *)
ListInvitedMemberEmails(g) == {m.email : m \in {n \in members : n.group = g}}
ListJoinedMemberEmails(g) ==
  {m.email : m \in {n \in members : n.group = g /\ n.status = "joined"}}

ShareAudience(r) ==
  /\ pc[r] = "shareAudience"
  /\ audience' = [audience EXCEPT ![r] = @ \cup ListJoinedMemberEmails(req[r].group)]
  /\ Goto(r, "shareInsert")
  /\ UNCHANGED <<rowVars, req, owned, won, listed, outVars, envVars>>

(* createShare; the group may be gone.                                     *)
ShareInsert(r) ==
  /\ pc[r] = "shareInsert"
  /\ IF req[r].group \in groups \cup {None}
     THEN /\ shares' = shares \cup {[token |-> r, group |-> req[r].group]}
          /\ Goto(r, "shareNotify")
     ELSE Answer(r, 500) /\ UNCHANGED shares
  /\ UNCHANGED <<groups, owner, members, joined, locVars, outVars, envVars>>

ShareNotify(r) ==
  /\ pc[r] = "shareNotify"
  /\ heard' \in {heard, [heard EXCEPT ![r] = audience[r]]}
  /\ Answer(r, 201)
  /\ UNCHANGED <<rowVars, locVars, mailed, envVars>>

-----------------------------------------------------------------------------
(* GET /shares/:token.                                                     *)

(* findShareByToken.                                                       *)
OpenLookup(r, u, t) ==
  /\ Ask(r, Asked("open", u, None, None, t))
  /\ IF \E s \in shares : s.token = t THEN Goto(r, "openFetch") ELSE Answer(r, 404)
  /\ UNCHANGED <<rowVars, owned, won, listed, audience, outVars, envVars>>

(* itineraryClient asks itinerary-service, which POST /shares never did.   *)
OpenFetch(r) ==
  /\ pc[r] = "openFetch"
  /\ Answer(r, IF trip THEN 200 ELSE 404)
  /\ UNCHANGED <<rowVars, locVars, outVars, envVars>>

(* DELETE /api/itineraries/:id, at the other service.                      *)
TripDeleted ==
  /\ trip
  /\ trip' = FALSE
  /\ UNCHANGED <<rowVars, pc, locVars, answer, outVars, failed, faults>>

-----------------------------------------------------------------------------
(* DELETE /groups/:id.  Members go with the group (ON DELETE CASCADE), its *)
(* shares stay (ON DELETE SET NULL).                                       *)

SharesCascade(g) == {s \in shares : s.group # g}
SharesWithout(g) ==
  {s \in shares : s.group # g} \cup {[s EXCEPT !.group = None] : s \in {x \in shares : x.group = g}}

MembersWithout(g) == {m \in members : m.group # g}

DeleteGroup(r, u, g) ==
  /\ Ask(r, Asked("delete", u, g, None, None))
  /\ IF g \in groups /\ owner[g] = u
     THEN /\ groups' = groups \ {g}
          /\ members' = MembersWithout(g)
          /\ shares' = SharesWithout(g)
          /\ Goto(r, "reply")
     ELSE Answer(r, 404) /\ UNCHANGED <<groups, members, shares>>
  /\ UNCHANGED <<owner, joined, owned, won, listed, audience, outVars, envVars>>

-----------------------------------------------------------------------------
(* The one statement of a POST /groups or a DELETE has been answered.      *)
Reply(r) ==
  /\ pc[r] = "reply"
  /\ Answer(r, IF req[r].kind = "create" THEN 201 ELSE 200)
  /\ UNCHANGED <<rowVars, locVars, outVars, envVars>>

-----------------------------------------------------------------------------
(* A statement fails, or the reply to the one before it is lost.  (If it   *)
(* is the first that fails, the request might as well not have come.)      *)
Fail(r) ==
  /\ pc[r] \in Running
  /\ faults < MaxFaults
  /\ faults' = faults + 1
  /\ failed' = failed \cup {r}
  /\ Answer(r, IF pc[r] = "openFetch" THEN 502 ELSE 500)
  /\ UNCHANGED <<rowVars, locVars, outVars, trip>>

(* The process dies with all its requests.                                 *)
Crash ==
  /\ faults < MaxFaults
  /\ faults' = faults + 1
  /\ failed' = failed \cup {r \in Requests : pc[r] \in Running}
  /\ pc' = [r \in Requests |-> IF pc[r] \in Running THEN "done" ELSE pc[r]]
  /\ UNCHANGED <<rowVars, locVars, answer, outVars, trip>>

Invite(r) == InviteCheck(r) \/ InviteInsert(r) \/ InviteNotify(r) \/ InviteShow(r)
Share(r)  == ShareMembers(r) \/ ShareAudience(r) \/ ShareInsert(r) \/ ShareNotify(r)

(* What a request may name: groups and invite tokens that were ever there, *)
(* and links that somebody was given, in a mail or in an answer.  (Any     *)
(* other is answered like one that is there no more.)                      *)
KnownGroups == {g \in Ids : owner[g] # None}
KnownLinks == {s \in Requests : heard[s] # {} \/ (req[s].kind = "share" /\ answer[s] = 201)}
KnownTokens == {Seed} \cup {r \in Requests : req[r].kind = "invite"}

Arrive(r, u) ==
  \/ CreateGroup(r, u)
  \/ \E g \in KnownGroups : DeleteGroup(r, u, g)
  \/ \E g \in KnownGroups, e \in Emails : InviteLookup(r, u, g, e)
  \/ \E t \in KnownTokens : JoinMember(r, u, t) \/ JoinRefused(r, u, t)
  \/ \E t \in KnownLinks : OpenLookup(r, u, t)
  \/ \E S \in Recipients :
       ShareDirectly(r, u, S) \/ \E g \in KnownGroups : ShareLookup(r, u, g, S)

Next ==
  \/ \E r \in Requests :
       \/ \E u \in Users : Arrive(r, u)
       \/ Invite(r) \/ JoinShow(r) \/ Share(r) \/ OpenFetch(r) \/ Reply(r) \/ Fail(r)
  \/ TripDeleted
  \/ Crash

Spec == Init /\ [][Next]_vars

-----------------------------------------------------------------------------
(* What groups and shares guarantee.                                       *)

(* An invite token is spent once: of any two joins that won, each had a    *)
(* token of its own, however they overlap (toolsRepository.ts:243-250).    *)
TokenSpentOnce ==
  \A r, s \in Requests :
    won[r] # None /\ won[s] # None /\ req[r].token = req[s].token => r = s

(* Whoever loses a race of invitations is told 403, 404 or 409 and leaves  *)
(* nothing behind; a 500 needs a failure or a deletion that overtook it    *)
(* (groups.routes.ts:157-166).                                             *)
LosersAreTold ==
  \A r \in Requests : req[r].kind = "invite" =>
    /\ answer[r] \in {403, 404, 409} => \A m \in members : m.token # r
    /\ answer[r] = 500 => r \in failed \/ req[r].group \notin groups

(* No invitation in the mail is dead on arrival: its token can be          *)
(* redeemed, or was, or the group is gone; and so for every invitation     *)
(* that was answered 201 (groups.routes.ts:120-127, 167-179).              *)
NoDeadInvite ==
  \A r \in Requests :
    r \in mailed \/ (req[r].kind = "invite" /\ answer[r] = 201) =>
      \/ \E m \in members : m.token = r /\ m.status = "invited"
      \/ \E s \in Requests : won[s] # None /\ req[s].token = r
      \/ req[r].group \notin groups

(* A share is mailed to the addresses that the sharer listed and to those  *)
(* who had joined the group, never to one that was merely invited          *)
(* (shares.routes.ts:35-37, toolsRepository.ts:266).                       *)
SharedWithJoinedOnly ==
  \A r \in Requests : \A e \in heard[r] :
    e \in listed[r] \/ [group |-> req[r].group, email |-> e] \in joined

(* Whoever was given a link is told that there is nothing behind it only   *)
(* if the itinerary itself is gone or never was: never because the group   *)
(* it was shared with has been deleted, and never because the mail or the  *)
(* answer overtook the row (shares.routes.ts:71-98, 101-131,               *)
(* toolsRepository.ts:182).                                                *)
LinksOutliveGroups ==
  \A r \in Requests : req[r].kind = "open" /\ answer[r] = 404 => ~trip
=============================================================================
