------------------------- MODULE ToolsGroups_proofs -------------------------
(***************************************************************************)
(* Proofs about ToolsGroups, for any number of requests, users and         *)
(* addresses, and any number of failures.                                  *)
(***************************************************************************)
EXTENDS ToolsGroups, TLAPS

USE GroupsAssumption

-----------------------------------------------------------------------------
(* Typing, in three parts.                                                 *)

GroupsOK ==
  /\ groups \in SUBSET Ids
  /\ owner \in [Ids -> Users \cup {None}]
  /\ shares \in SUBSET [token : Requests, group : groups \cup {None}]

MembersOK ==
  /\ members \in SUBSET Members
  /\ joined \in SUBSET [group : Ids, email : Emails]
  /\ \A m \in members : m.group \in groups
  /\ \A m, n \in members : m.group = n.group /\ m.email = n.email => m = n

RequestsOK ==
  /\ pc \in [Requests -> Running \cup {"new", "done"}]
  /\ req \in [Requests -> Requested]
  /\ won \in [Requests -> Ids \cup {None}]
  /\ listed \in [Requests -> SUBSET Emails]
  /\ audience \in [Requests -> SUBSET Emails]
  /\ answer \in [Requests -> {0, 200, 201, 403, 404, 409, 500, 502}]
  /\ mailed \in SUBSET Requests
  /\ heard \in [Requests -> SUBSET Emails]
  /\ failed \in SUBSET Requests

OwnedOK  == owned \in [Requests -> BOOLEAN]
TripOK   == trip \in BOOLEAN
FaultsOK == faults \in 0..MaxFaults

(* The row that InviteInsert writes has the address that was asked for.    *)
AddressOK ==
  \A r \in Requests : pc[r] \in {"inviteCheck", "inviteInsert"} => req[r].email \in Emails

TypeInv == GroupsOK /\ MembersOK /\ RequestsOK /\ OwnedOK /\ TripOK /\ FaultsOK /\ AddressOK

(* Whether the group is the caller's own is a Boolean.                     *)
LEMMA OwnedStep ==
  ASSUME OwnedOK, [Next]_vars
  PROVE  OwnedOK'
<1>1. ASSUME NEW r, owned' = [owned EXCEPT ![r] = TRUE] \/ owned' = [owned EXCEPT ![r] = FALSE]
      PROVE  OwnedOK'
  BY <1>1, Zenon DEF OwnedOK
<1>2. ASSUME UNCHANGED owned
      PROVE  OwnedOK'
  BY <1>2 DEF OwnedOK
<1>3. ASSUME NEW r, NEW u, NEW g, NEW S, ShareLookup(r, u, g, S)
      PROVE  OwnedOK'
  <2>1. owned' = [owned EXCEPT ![r] = owner[g] = u]
    BY <1>3 DEF ShareLookup
  <2>2. CASE owner[g] = u
    <3>1. (owner[g] = u) = TRUE
      BY <2>2
    <3> QED
      BY <2>1, <3>1, <1>1
  <2>3. CASE owner[g] # u
    <3>1. (owner[g] = u) = FALSE
      BY <2>3
    <3> QED
      BY <2>1, <3>1, <1>1
  <2> QED
    BY <2>2, <2>3
<1> QED
  BY <1>2, <1>3
     DEF Next, Arrive, Invite, Share, vars, rowVars, outVars, locVars, envVars,
       CreateGroup, InviteLookup, InviteCheck, InviteInsert, InviteNotify, InviteShow,
       JoinMember, JoinRefused, JoinShow, ShareDirectly, ShareMembers,
       ShareAudience, ShareInsert, ShareNotify, OpenLookup, OpenFetch, TripDeleted, DeleteGroup,
       Reply, Fail, Crash

(* An itinerary is there or not.                                           *)
LEMMA TripStep ==
  ASSUME TripOK, [Next]_vars
  PROVE  TripOK'
<1>1. UNCHANGED trip \/ trip' = FALSE
  BY DEF Next, Arrive, Invite, Share, vars, envVars,
       CreateGroup, InviteLookup, InviteCheck, InviteInsert, InviteNotify, InviteShow,
       JoinMember, JoinRefused, JoinShow, ShareDirectly, ShareLookup, ShareMembers,
       ShareAudience, ShareInsert, ShareNotify, OpenLookup, OpenFetch, TripDeleted, DeleteGroup,
       Reply, Fail, Crash
<1> QED
  BY <1>1, Zenon DEF TripOK

(* The bound on failures is kept.                                          *)
LEMMA FaultsStep ==
  ASSUME FaultsOK, [Next]_vars
  PROVE  FaultsOK'
BY DEF FaultsOK, Next, Arrive, Invite, Share, vars, rowVars, outVars, locVars, envVars,
       CreateGroup, InviteLookup, InviteCheck, InviteInsert, InviteNotify, InviteShow,
       JoinMember, JoinRefused, JoinShow, ShareDirectly, ShareLookup, ShareMembers,
       ShareAudience, ShareInsert, ShareNotify, OpenLookup, OpenFetch, TripDeleted, DeleteGroup,
       Reply, Fail, Crash

(* Groups, owners and shares stay well-formed; a deletion leaves no share  *)
(* of a group that is gone.                                                *)
LEMMA GroupsStep ==
  ASSUME GroupsOK, RequestsOK, [Next]_vars
  PROVE  GroupsOK'
<1> USE DEF GroupsOK, Ids, rowVars, envVars
<1>1. ASSUME NEW r \in Requests, NEW u \in Users, CreateGroup(r, u)
      PROVE  GroupsOK'
  BY <1>1 DEF CreateGroup
<1>2. ASSUME NEW r \in Requests, ShareInsert(r)
      PROVE  GroupsOK'
  BY <1>2 DEF ShareInsert, RequestsOK
<1>3. ASSUME NEW r \in Requests, NEW u \in Users, NEW g \in Ids, DeleteGroup(r, u, g)
      PROVE  GroupsOK'
  BY <1>3 DEF DeleteGroup, SharesWithout
<1>4. ASSUME UNCHANGED <<groups, owner, shares>>
      PROVE  GroupsOK'
  BY <1>4
<1> QED
  BY <1>1, <1>2, <1>3, <1>4
     DEF Next, Arrive, Invite, Share, vars, KnownGroups,
       InviteLookup, InviteCheck, InviteInsert, InviteNotify, InviteShow,
       JoinMember, JoinRefused, JoinShow, ShareDirectly, ShareLookup, ShareMembers,
       ShareAudience, ShareNotify, OpenLookup, OpenFetch, TripDeleted, Reply, Fail, Crash

(* A member row belongs to a group that exists, and is the only one of     *)
(* its address there.                                                      *)
LEMMA MembersStep ==
  ASSUME GroupsOK, MembersOK, RequestsOK, AddressOK, [Next]_vars
  PROVE  MembersOK'
<1> USE DEF MembersOK, Members, Member, rowVars, envVars
<1>1. ASSUME NEW r \in Requests, NEW u \in Users, CreateGroup(r, u)
      PROVE  MembersOK'
  BY <1>1 DEF CreateGroup
<1>2. ASSUME NEW r \in Requests, InviteInsert(r)
      PROVE  MembersOK'
  BY <1>2 DEF InviteInsert, MemberOf, AddressOK, GroupsOK, RequestsOK, Ids
<1>3. ASSUME NEW r \in Requests, NEW u \in Users, NEW t \in Ids, JoinMember(r, u, t)
      PROVE  MembersOK'
  BY <1>3 DEF JoinMember
<1>4. ASSUME NEW r \in Requests, NEW u \in Users, NEW g \in Ids, DeleteGroup(r, u, g)
      PROVE  MembersOK'
  BY <1>4 DEF DeleteGroup, MembersWithout
<1>5. ASSUME UNCHANGED <<groups, members, joined>>
      PROVE  MembersOK'
  BY <1>5
<1> QED
  BY <1>1, <1>2, <1>3, <1>4, <1>5
     DEF Next, Arrive, Invite, Share, vars, KnownGroups, KnownTokens, Ids,
       InviteLookup, InviteCheck, InviteNotify, InviteShow,
       JoinRefused, JoinShow, ShareDirectly, ShareLookup, ShareMembers,
       ShareAudience, ShareInsert, ShareNotify, OpenLookup, OpenFetch, TripDeleted, Reply,
       Fail, Crash

(* An invitation in progress has an address.                               *)
LEMMA AddressStep ==
  ASSUME RequestsOK, AddressOK, [Next]_vars
  PROVE  AddressOK'
BY DEF AddressOK, RequestsOK, Next, Arrive, Invite, Share, Ask, Asked, Goto, Answer, Running,
       vars, rowVars, outVars, locVars, envVars,
       CreateGroup, InviteLookup, InviteCheck, InviteInsert, InviteNotify, InviteShow,
       JoinMember, JoinRefused, JoinShow, ShareDirectly, ShareLookup, ShareMembers,
       ShareAudience, ShareInsert, ShareNotify, OpenLookup, OpenFetch, TripDeleted, DeleteGroup,
       Reply, Fail, Crash

(* The requests stay well-formed.                                          *)
LEMMA RequestsStep ==
  ASSUME GroupsOK, MembersOK, RequestsOK, [Next]_vars
  PROVE  RequestsOK'
<1> USE DEF RequestsOK, Running, Requested, Asked, Ask, Goto, Answer, rowVars, outVars, locVars,
            envVars, Ids
<1>1. ASSUME NEW r \in Requests, NEW u \in Users, CreateGroup(r, u)
      PROVE  RequestsOK'
  BY <1>1 DEF CreateGroup
<1>2. ASSUME NEW r \in Requests, NEW u \in Users, NEW g \in Ids, DeleteGroup(r, u, g)
      PROVE  RequestsOK'
  BY <1>2 DEF DeleteGroup
<1>3. ASSUME NEW r \in Requests, NEW u \in Users, NEW g \in Ids, NEW e \in Emails,
             InviteLookup(r, u, g, e)
      PROVE  RequestsOK'
  <2>1. req' = [req EXCEPT ![r] = Asked("invite", u, g, e, None)]
    BY <1>3 DEF InviteLookup
  <2>2. Asked("invite", u, g, e, None) \in Requested
    OBVIOUS
  <2>3. /\ pc' \in [Requests -> Running \cup {"new", "done"}]
        /\ answer' \in [Requests -> {0, 200, 201, 403, 404, 409, 500, 502}]
    <3>1. CASE g \notin groups
      BY <1>3, <3>1 DEF InviteLookup
    <3>2. CASE g \in groups /\ owner[g] # u
      <4>1. Answer(r, 403)
        BY ONLY <1>3, <3>2 DEF InviteLookup
      <4> QED
        BY <4>1
    <3>3. CASE g \in groups /\ owner[g] = u
      BY <1>3, <3>3 DEF InviteLookup
    <3> QED
      BY <3>1, <3>2, <3>3
  <2>4. UNCHANGED <<won, listed, audience, mailed, heard, failed>>
    BY <1>3 DEF InviteLookup
  <2> QED
    BY <2>1, <2>2, <2>3, <2>4
<1>4. ASSUME NEW r \in Requests, Invite(r)
      PROVE  RequestsOK'
  BY <1>4 DEF Invite, InviteCheck, InviteInsert, InviteNotify, InviteShow
<1>5. ASSUME NEW r \in Requests, NEW u \in Users, NEW t \in Ids, JoinMember(r, u, t)
      PROVE  RequestsOK'
  BY <1>5 DEF JoinMember, MembersOK, Members
<1>6. ASSUME NEW r \in Requests, NEW u \in Users, NEW t \in Ids, JoinRefused(r, u, t)
      PROVE  RequestsOK'
  BY <1>6 DEF JoinRefused
<1>7. ASSUME NEW r \in Requests, NEW u \in Users, NEW S \in Recipients, ShareDirectly(r, u, S)
      PROVE  RequestsOK'
  BY <1>7 DEF ShareDirectly
<1>8. ASSUME NEW r \in Requests, NEW u \in Users, NEW g \in Ids, NEW S \in Recipients,
             ShareLookup(r, u, g, S)
      PROVE  RequestsOK'
  <2>1. /\ req' = [req EXCEPT ![r] = Asked("share", u, g, None, None)]
        /\ listed' = [listed EXCEPT ![r] = S]
        /\ audience' = [audience EXCEPT ![r] = S]
    BY <1>8 DEF ShareLookup
  <2>2. /\ pc' \in [Requests -> Running \cup {"new", "done"}]
        /\ answer' \in [Requests -> {0, 200, 201, 403, 404, 409, 500, 502}]
    BY <1>8 DEF ShareLookup
  <2>3. UNCHANGED <<won, mailed, heard, failed>>
    BY <1>8 DEF ShareLookup
  <2>4. S \in SUBSET Emails /\ Asked("share", u, g, None, None) \in Requested
    OBVIOUS
  <2> QED
    BY <2>1, <2>2, <2>3, <2>4
<1>9. ASSUME NEW r \in Requests, Share(r)
      PROVE  RequestsOK'
  <2>1. ListJoinedMemberEmails(req[r].group) \in SUBSET Emails
    BY DEF ListJoinedMemberEmails, MembersOK, Members
  <2> QED
    BY <1>9, <2>1 DEF Share, ShareMembers, ShareAudience, ShareInsert, ShareNotify
<1>10. ASSUME NEW r \in Requests, JoinShow(r) \/ Reply(r) \/ Fail(r)
       PROVE  RequestsOK'
  <2>1. CASE JoinShow(r)
    BY <2>1 DEF JoinShow
  <2>2. CASE Reply(r)
    BY <2>2 DEF Reply
  <2>3. CASE Fail(r)
    BY <2>3 DEF Fail
  <2> QED
    BY <1>10, <2>1, <2>2, <2>3
<1>13. ASSUME NEW r \in Requests, NEW u \in Users, NEW t \in Requests, OpenLookup(r, u, t)
       PROVE  RequestsOK'
  BY <1>13 DEF OpenLookup
<1>14. ASSUME NEW r \in Requests, OpenFetch(r)
       PROVE  RequestsOK'
  BY <1>14 DEF OpenFetch
<1>15. ASSUME TripDeleted
       PROVE  RequestsOK'
  BY <1>15 DEF TripDeleted
<1>11. ASSUME Crash
       PROVE  RequestsOK'
  BY <1>11 DEF Crash
<1>12. ASSUME UNCHANGED vars
       PROVE  RequestsOK'
  BY <1>12 DEF vars
<1> QED
  BY <1>1, <1>2, <1>3, <1>4, <1>5, <1>6, <1>7, <1>8, <1>9, <1>10, <1>11, <1>12,
     <1>13, <1>14, <1>15
     DEF Next, Arrive, KnownGroups, KnownTokens, KnownLinks

(* The seeded database is well-formed.                                     *)
LEMMA InitTyped == Init => TypeInv
<1>1. Init => GroupsOK /\ MembersOK /\ FaultsOK /\ AddressOK
  BY DEF Init, GroupsOK, MembersOK, FaultsOK, AddressOK, Ids, Members, Member, Running
<1>2. Init => RequestsOK
  BY DEF Init, RequestsOK, Running, Requested, Asked, Nothing, Ids
<1>3. Init => OwnedOK /\ TripOK
  BY Zenon DEF Init, OwnedOK, TripOK
<1> QED
  BY <1>1, <1>2, <1>3 DEF TypeInv

(* Every step keeps the types.                                             *)
LEMMA TypeStep ==
  ASSUME TypeInv, [Next]_vars
  PROVE  TypeInv'
BY OwnedStep, TripStep, FaultsStep, GroupsStep, MembersStep, AddressStep, RequestsStep DEF TypeInv

(* The state of groups and shares is well-formed: members belong to groups *)
(* that exist, and an address to a group once (toolsRepository.ts:230,     *)
(* tools-service.sql:12-22).                                               *)
THEOREM GroupsTypeCorrect == Spec => []TypeOK
<1>1. TypeInv => TypeOK
  BY DEF TypeInv, TypeOK, GroupsOK, MembersOK, RequestsOK, OwnedOK, TripOK, FaultsOK
<1> QED
  BY <1>1, InitTyped, TypeStep, PTL DEF Spec

-----------------------------------------------------------------------------
(***************************************************************************)
(* The invariant behind the guarantees, in three parts.                    *)
(***************************************************************************)

(* Nobody holds the token of an invitation that has not been inserted.     *)
Unissued(r) ==
  \/ req[r].kind # "invite"
  \/ pc[r] \in {"new", "inviteCheck", "inviteInsert"}
  \/ answer[r] \in {403, 404, 409}

Spent(t) == \E s \in Requests : won[s] # None /\ req[s].token = t

(* A token is the key of one row, until a join spends it for good.         *)
TokenInv ==
  /\ \A r \in Requests : pc[r] # "done" => answer[r] = 0
  /\ \A r \in Requests :
       /\ pc[r] \in {"inviteCheck", "inviteInsert"} => req[r].kind = "invite"
       /\ pc[r] = "shareMembers" => req[r].kind = "share"
       /\ pc[r] = "openFetch" => req[r].kind = "open"
  /\ \A m, n \in members : m.token = n.token /\ m.token # None => m = n
  /\ \A r \in Requests : won[r] # None =>
       /\ pc[r] # "new"
       /\ req[r].token # None
       /\ \A m \in members : m.token # req[r].token
  /\ \A r \in Requests : Unissued(r) => ~Spent(r) /\ \A m \in members : m.token # r
  /\ TokenSpentOnce

(* Every step keeps TokenInv.                                              *)
LEMMA TokenStep ==
  ASSUME TypeInv, TokenInv, [Next]_vars
  PROVE  TokenInv'
<1> DEFINE Moves(r, label) ==
             /\ label \in Running
             /\ label \notin {"inviteCheck", "shareMembers", "openFetch"}
             /\ label = "inviteInsert" => pc[r] = "inviteCheck"
             /\ Goto(r, label)
<1> DEFINE Ends(r, code) == (code \in {403, 404, 409} => Unissued(r)) /\ Answer(r, code)
<1>1. ASSUME NEW r \in Requests, pc[r] \in Running, UNCHANGED <<members, req, won>>,
             \/ \E label : Moves(r, label)
             \/ \E code : Ends(r, code)
      PROVE  TokenInv'
  <2> USE DEF TypeInv, TokenInv, TokenSpentOnce, Unissued, Spent, RequestsOK, Goto, Answer, Running
  <2>1. ASSUME NEW label, Moves(r, label)
        PROVE  TokenInv'
    BY <1>1, <2>1
  <2>2. ASSUME NEW code, Ends(r, code)
        PROVE  TokenInv'
    BY <1>1, <2>2
  <2> QED
    BY <1>1, <2>1, <2>2
<1>2. ASSUME NEW r \in Requests, NEW asked \in Requested, Ask(r, asked),
             UNCHANGED <<members, won>>,
             \/ /\ Goto(r, "reply") \/ Goto(r, "shareInsert")
                /\ asked.kind # "invite"
             \/ Goto(r, "shareMembers") /\ asked.kind = "share"
             \/ Goto(r, "openFetch") /\ asked.kind = "open"
             \/ Goto(r, "inviteCheck") /\ asked.kind = "invite"
             \/ \E code : Answer(r, code)
      PROVE  TokenInv'
  <2> USE DEF TypeInv, TokenInv, TokenSpentOnce, Unissued, Spent, RequestsOK, Running, Ask
  <2>1. CASE \E code : Answer(r, code)
    BY <1>2, <2>1 DEF Answer
  <2>2. CASE asked.kind # "invite" /\ (Goto(r, "reply") \/ Goto(r, "shareInsert"))
    BY <1>2, <2>2 DEF Goto
  <2>3. CASE asked.kind = "share" /\ Goto(r, "shareMembers")
    BY <1>2, <2>3 DEF Goto
  <2>4. CASE asked.kind = "invite" /\ Goto(r, "inviteCheck")
    BY <1>2, <2>4 DEF Goto
  <2>5. CASE asked.kind = "open" /\ Goto(r, "openFetch")
    BY <1>2, <2>5 DEF Goto
  <2> QED
    BY <1>2, <2>1, <2>2, <2>3, <2>4, <2>5
<1>3. ASSUME NEW r \in Requests,
             \/ InviteCheck(r) \/ InviteNotify(r) \/ InviteShow(r) \/ JoinShow(r)
             \/ Share(r) \/ OpenFetch(r) \/ Reply(r) \/ Fail(r)
      PROVE  TokenInv'
  <2> USE DEF InviteCheck, InviteNotify, InviteShow, JoinShow, Share, ShareMembers, ShareAudience,
              ShareInsert, ShareNotify, OpenFetch, Reply, Fail, rowVars, locVars, outVars, envVars, Running
  <2>1. pc[r] \in Running /\ UNCHANGED <<members, req, won>>
    BY <1>3
  <2>2. \/ Moves(r, "inviteInsert") \/ Moves(r, "inviteShow")
        \/ Moves(r, "shareAudience") \/ Moves(r, "shareInsert") \/ Moves(r, "shareNotify")
        \/ Ends(r, 200) \/ Ends(r, 201) \/ Ends(r, 404) \/ Ends(r, 409) \/ Ends(r, 500)
        \/ Ends(r, 502)
    BY <1>3 DEF Unissued, TokenInv
  <2> QED
    BY <1>1, <2>1, <2>2
<1>4. ASSUME NEW r \in Requests, InviteInsert(r)
      PROVE  TokenInv'
  <2> DEFINE g == req[r].group
             e == req[r].email
  <2>1. pc[r] = "inviteInsert" /\ UNCHANGED <<req, won>>
    BY <1>4 DEF InviteInsert, locVars
  <2>2. CASE UNCHANGED members /\ (Answer(r, 409) \/ Answer(r, 500))
    <3>1. Ends(r, 409) \/ Ends(r, 500)
      BY <2>1, <2>2 DEF Unissued
    <3> QED
      BY <1>1, <2>1, <2>2, <3>1 DEF Running
  <2>3. CASE members' = members \cup {Member(g, e, "invited", None, r)} /\ Goto(r, "inviteNotify")
    <3>1. \A m \in members : m.token # r
      BY <2>1 DEF TokenInv, Unissued
    <3>2. ~Spent(r)
      BY <2>1 DEF TokenInv, Unissued
    <3>3. \A m \in members' : m \in members \/ m.token = r
      BY <2>3 DEF Member
    <3>4. \A m, n \in members' : m.token = n.token /\ m.token # None => m = n
      BY <2>3, <3>1 DEF TokenInv, Member
    <3>5. ~Unissued(r)'
      BY <2>1, <2>3 DEF TypeInv, RequestsOK, Unissued, Goto, TokenInv
    <3> QED
      BY <2>1, <2>3, <3>2, <3>3, <3>4, <3>5
         DEF TypeInv, TokenInv, TokenSpentOnce, Unissued, Spent, RequestsOK, Goto, Running
  <2> QED
    BY <1>4, <2>2, <2>3 DEF InviteInsert
<1>5. ASSUME NEW r \in Requests, NEW u \in Users, NEW t \in Ids, JoinMember(r, u, t)
      PROVE  TokenInv'
  BY <1>5
     DEF JoinMember, TypeInv, TokenInv, TokenSpentOnce, Unissued, Spent, RequestsOK, Ask, Asked,
         Goto, Running, Member, Ids
<1>6. ASSUME NEW r \in Requests, NEW u \in Users, NEW g \in Ids, DeleteGroup(r, u, g)
      PROVE  TokenInv'
  BY <1>6
     DEF DeleteGroup, MembersWithout, TypeInv, TokenInv, TokenSpentOnce, Unissued, Spent,
         RequestsOK, Ask, Asked, Goto, Answer, Running
<1>7. ASSUME NEW r \in Requests, NEW u \in Users,
             CreateGroup(r, u)
      PROVE  TokenInv'
  <2>1. Asked("create", u, r, None, None) \in Requested
    BY DEF Asked, Requested, Ids
  <2>2. /\ Ask(r, Asked("create", u, r, None, None))
        /\ UNCHANGED <<members, won>>
        /\ Goto(r, "reply")
    BY <1>7 DEF CreateGroup, rowVars
  <2> QED
    BY <1>2, <2>1, <2>2 DEF Asked
<1>8. ASSUME NEW r \in Requests, NEW u \in Users, NEW g \in Ids, NEW e \in Emails,
             InviteLookup(r, u, g, e)
      PROVE  TokenInv'
  <2>1. Asked("invite", u, g, e, None) \in Requested
    BY DEF Asked, Requested, Ids
  <2>2. /\ Ask(r, Asked("invite", u, g, e, None))
        /\ UNCHANGED <<members, won>>
        /\ Goto(r, "inviteCheck") \/ \E code : Answer(r, code)
    BY <1>8 DEF InviteLookup, rowVars
  <2> QED
    BY <1>2, <2>1, <2>2 DEF Asked
<1>9. ASSUME NEW r \in Requests, NEW u \in Users, NEW t \in Ids,
             JoinRefused(r, u, t)
      PROVE  TokenInv'
  <2>1. Asked("join", u, None, None, t) \in Requested
    BY DEF Asked, Requested, Ids
  <2>2. /\ Ask(r, Asked("join", u, None, None, t))
        /\ UNCHANGED <<members, won>>
        /\ Answer(r, 404)
    BY <1>9 DEF JoinRefused, rowVars
  <2> QED
    BY <1>2, <2>1, <2>2 DEF Asked
<1>10. ASSUME NEW r \in Requests, NEW u \in Users, NEW S,
              ShareDirectly(r, u, S)
       PROVE  TokenInv'
  <2>1. Asked("share", u, None, None, None) \in Requested
    BY DEF Asked, Requested, Ids
  <2>2. /\ Ask(r, Asked("share", u, None, None, None))
        /\ UNCHANGED <<members, won>>
        /\ Goto(r, "shareInsert")
    BY <1>10 DEF ShareDirectly, rowVars
  <2> QED
    BY <1>2, <2>1, <2>2 DEF Asked
<1>11. ASSUME NEW r \in Requests, NEW u \in Users, NEW g \in Ids, NEW S,
              ShareLookup(r, u, g, S)
       PROVE  TokenInv'
  <2>1. Asked("share", u, g, None, None) \in Requested
    BY DEF Asked, Requested, Ids
  <2>2. /\ Ask(r, Asked("share", u, g, None, None))
        /\ UNCHANGED <<members, won>>
        /\ Goto(r, "shareMembers") \/ \E code : Answer(r, code)
    BY <1>11 DEF ShareLookup, rowVars
  <2> QED
    BY <1>2, <2>1, <2>2 DEF Asked
<1>12. ASSUME Crash
       PROVE  TokenInv'
  BY <1>12
     DEF Crash, rowVars, locVars, TypeInv, TokenInv, TokenSpentOnce, Unissued, Spent, RequestsOK,
         Running
<1>15. ASSUME NEW r \in Requests, NEW u \in Users, NEW t \in Requests, OpenLookup(r, u, t)
       PROVE  TokenInv'
  <2>1. Asked("open", u, None, None, t) \in Requested
    BY DEF Asked, Requested, Ids
  <2>2. /\ Ask(r, Asked("open", u, None, None, t))
        /\ UNCHANGED <<members, won>>
        /\ Goto(r, "openFetch") \/ \E code : Answer(r, code)
    BY <1>15 DEF OpenLookup, rowVars
  <2> QED
    BY <1>2, <2>1, <2>2 DEF Asked
<1>16. ASSUME TripDeleted
       PROVE  TokenInv'
  BY <1>16
     DEF TripDeleted, rowVars, locVars, TokenInv, TokenSpentOnce, Unissued, Spent
<1>13. ASSUME UNCHANGED vars
       PROVE  TokenInv'
  BY <1>13
     DEF vars, rowVars, locVars, TokenInv, TokenSpentOnce, Unissued, Spent
<1>14. KnownGroups \subseteq Ids /\ KnownTokens \subseteq Ids /\ KnownLinks \subseteq Requests
  BY DEF KnownGroups, KnownTokens, KnownLinks, Ids
<1> QED
  <2>1. ASSUME NEW r \in Requests, NEW u \in Users, Arrive(r, u)
        PROVE  TokenInv'
    BY <2>1, <1>5, <1>6, <1>7, <1>8, <1>9, <1>10, <1>11, <1>14, <1>15 DEF Arrive
  <2> QED
    BY <2>1, <1>3, <1>4, <1>12, <1>13, <1>16 DEF Next, Invite

(* An invite token is spent once, however many joins overlap               *)
(* (toolsRepository.ts:243-250).                                           *)
THEOREM TokensSpentOnce == Spec => []TokenSpentOnce
<1>1. Init => TypeInv /\ TokenInv
  <2>1. Init => TokenInv
    BY DEF Init, TokenInv, TokenSpentOnce, Unissued, Spent, Member, Nothing, Asked
  <2> QED
    BY <2>1, InitTyped
<1>2. TypeInv /\ TokenInv /\ [Next]_vars => (TypeInv /\ TokenInv)'
  BY TypeStep, TokenStep
<1>3. TokenInv => TokenSpentOnce
  BY DEF TokenInv
<1> QED
  BY <1>1, <1>2, <1>3, PTL DEF Spec

-----------------------------------------------------------------------------
(***************************************************************************)
(* What became of the invitations and the shares.                          *)
(***************************************************************************)

(* A request that has not arrived named nothing and is named by nothing.   *)
Unborn(r) ==
  /\ req[r] = Nothing /\ owner[r] = None
  /\ r \notin mailed /\ heard[r] = {} /\ audience[r] = {}

(* The group of an invitation was there, and a 500 has its reason.         *)
InviteWay(r) ==
  /\ pc[r] \in {"inviteCheck", "inviteInsert", "inviteNotify", "inviteShow", "done"}
  /\ req[r].group # None
  /\ answer[r] = 500 => r \in failed \/ req[r].group \notin groups

(* A group that somebody named had its owner, so that it is never created  *)
(* again once it is gone.                                                  *)
HistoryInv ==
  /\ \A r \in Requests : pc[r] = "new" => Unborn(r)
  /\ \A r \in Requests : req[r].group # None => owner[req[r].group] # None
  /\ \A r \in Requests : req[r].kind = "invite" => InviteWay(r)

(* Every step keeps HistoryInv: a CreateGroup names a group that nobody    *)
(* has named yet.                                                          *)
LEMMA HistoryStep ==
  ASSUME TypeInv, TokenInv, HistoryInv, [Next]_vars
  PROVE  HistoryInv'
<1> USE DEF HistoryInv, Unborn, InviteWay, TypeInv, GroupsOK, RequestsOK, rowVars, outVars,
            locVars, envVars
<1>1. ASSUME NEW r \in Requests, pc[r] \in Running,
             UNCHANGED <<groups, owner, req, failed>>,
             \A s \in Requests \ {r} :
               /\ heard'[s] = heard[s] /\ audience'[s] = audience[s]
               /\ s \in mailed' => s \in mailed,
             \/ \E label \in Running : Goto(r, label) /\
                  (req[r].kind = "invite" => label \in {"inviteInsert", "inviteNotify", "inviteShow"})
             \/ \E code : Answer(r, code) /\
                  (req[r].kind = "invite" /\ code = 500 => req[r].group \notin groups)
      PROVE  HistoryInv'
  <2>1. ASSUME NEW label \in Running, Goto(r, label),
               req[r].kind = "invite" => label \in {"inviteInsert", "inviteNotify", "inviteShow"}
        PROVE  HistoryInv'
    BY <1>1, <2>1 DEF Goto, Running
  <2>2. ASSUME NEW code, Answer(r, code),
               req[r].kind = "invite" /\ code = 500 => req[r].group \notin groups
        PROVE  HistoryInv'
    BY <1>1, <2>2 DEF Answer, Running
  <2> QED
    BY <1>1, <2>1, <2>2
<1>2. ASSUME NEW r \in Requests,
             \/ InviteCheck(r) \/ InviteInsert(r) \/ InviteNotify(r) \/ InviteShow(r)
             \/ JoinShow(r) \/ Share(r) \/ OpenFetch(r) \/ Reply(r)
      PROVE  HistoryInv'
  <2> USE DEF InviteCheck, InviteInsert, InviteNotify, InviteShow, JoinShow, Share, ShareMembers,
              ShareAudience, ShareInsert, ShareNotify, OpenFetch, Reply
  <2>1. pc[r] \in Running /\ UNCHANGED <<groups, owner, req, failed>>
    BY <1>2 DEF Running
  <2>2. \A s \in Requests \ {r} :
          /\ heard'[s] = heard[s] /\ audience'[s] = audience[s]
          /\ s \in mailed' => s \in mailed
    BY <1>2
  <2>3. \/ \E label \in Running : Goto(r, label) /\
             (req[r].kind = "invite" => label \in {"inviteInsert", "inviteNotify", "inviteShow"})
        \/ \E code : Answer(r, code) /\
             (req[r].kind = "invite" /\ code = 500 => req[r].group \notin groups)
    BY <1>2 DEF Running
  <2> QED
    BY <1>1, <2>1, <2>2, <2>3
<1>3. ASSUME NEW r \in Requests, NEW asked \in Requested, Ask(r, asked),
             UNCHANGED <<groups, owner, mailed, heard, failed>>,
             \A s \in Requests \ {r} : audience'[s] = audience[s],
             asked.group # None => asked.group \in KnownGroups,
             asked.kind = "invite" => asked.group # None,
             \/ \E label \in Running \ {"new"} : Goto(r, label) /\
                  (asked.kind = "invite" => label = "inviteCheck")
             \/ \E code : Answer(r, code) /\ code # 500
      PROVE  HistoryInv'
  <2> USE DEF Ask, KnownGroups
  <2>1. ASSUME NEW label \in Running, Goto(r, label),
               asked.kind = "invite" => label = "inviteCheck"
        PROVE  HistoryInv'
    BY <1>3, <2>1 DEF Goto, Running, TokenInv
  <2>2. ASSUME NEW code, Answer(r, code), code # 500
        PROVE  HistoryInv'
    BY <1>3, <2>2 DEF Answer
  <2> QED
    BY <1>3, <2>1, <2>2
<1>4. ASSUME NEW r \in Requests, NEW u \in Users, NEW g \in KnownGroups, NEW e \in Emails,
             InviteLookup(r, u, g, e)
      PROVE  HistoryInv'
  <2>1. Asked("invite", u, g, e, None) \in Requested /\ g # None
    BY DEF Asked, Requested, Ids, KnownGroups
  <2> QED
    BY <1>3, <1>4, <2>1 DEF InviteLookup, Asked, Running
<1>5. ASSUME NEW r \in Requests, NEW u \in Users, NEW t \in Ids,
             JoinMember(r, u, t) \/ JoinRefused(r, u, t)
      PROVE  HistoryInv'
  <2>1. Asked("join", u, None, None, t) \in Requested
    BY DEF Asked, Requested, Ids
  <2> QED
    BY <1>3, <1>5, <2>1 DEF JoinMember, JoinRefused, Asked, Running
<1>6. ASSUME NEW r \in Requests, NEW u \in Users, NEW S \in Recipients, ShareDirectly(r, u, S)
      PROVE  HistoryInv'
  <2>1. Asked("share", u, None, None, None) \in Requested
    BY DEF Asked, Requested, Ids
  <2> QED
    BY <1>3, <1>6, <2>1 DEF ShareDirectly, Asked, Running
<1>7. ASSUME NEW r \in Requests, NEW u \in Users, NEW g \in KnownGroups, NEW S \in Recipients,
             ShareLookup(r, u, g, S)
      PROVE  HistoryInv'
  <2>1. Asked("share", u, g, None, None) \in Requested
    BY DEF Asked, Requested, Ids, KnownGroups
  <2> QED
    BY <1>3, <1>7, <2>1 DEF ShareLookup, Asked, Running
<1>8. ASSUME NEW r \in Requests, NEW u \in Users, NEW g \in KnownGroups, DeleteGroup(r, u, g)
      PROVE  HistoryInv'
  BY <1>8 DEF DeleteGroup, Asked, Ask, Goto, Answer, KnownGroups, TokenInv, Ids
<1>9. ASSUME NEW r \in Requests, NEW u \in Users, CreateGroup(r, u)
      PROVE  HistoryInv'
  BY <1>9 DEF CreateGroup, Asked, Ask, Goto, TokenInv, Ids
<1>10. ASSUME NEW r \in Requests, Fail(r)
       PROVE  HistoryInv'
  BY <1>10 DEF Fail, Answer, Running
<1>11. ASSUME Crash
       PROVE  HistoryInv'
  BY <1>11 DEF Crash, Running
<1>13. ASSUME NEW r \in Requests, NEW u \in Users, NEW t \in Requests, OpenLookup(r, u, t)
       PROVE  HistoryInv'
  <2>1. Asked("open", u, None, None, t) \in Requested
    BY DEF Asked, Requested, Ids
  <2> QED
    BY <1>3, <1>13, <2>1 DEF OpenLookup, Asked, Running
<1>14. ASSUME TripDeleted
       PROVE  HistoryInv'
  BY <1>14 DEF TripDeleted
<1>12. ASSUME UNCHANGED vars
       PROVE  HistoryInv'
  BY <1>12 DEF vars
<1> QED
  <2>1. KnownTokens \subseteq Ids /\ KnownLinks \subseteq Requests
    BY DEF KnownTokens, KnownLinks, Ids
  <2>2. ASSUME NEW r \in Requests, NEW u \in Users, Arrive(r, u)
        PROVE  HistoryInv'
    BY <2>1, <2>2, <1>4, <1>5, <1>6, <1>7, <1>8, <1>9, <1>13 DEF Arrive
  <2> QED
    BY <2>2, <1>2, <1>10, <1>11, <1>12, <1>14 DEF Next, Invite

(* An invitation whose row was inserted ...                                *)
Issued(r) ==
  \/ r \in mailed
  \/ pc[r] \in {"inviteNotify", "inviteShow"}
  \/ req[r].kind = "invite" /\ answer[r] = 201

Redeemable(r) == \E m \in members : m.token = r /\ m.status = "invited"

(* ... has it still, unless the token was redeemed or the group is gone.   *)
InviteInv ==
  /\ \A r \in Requests : Issued(r) => req[r].kind = "invite"
  /\ \A m \in members : m.token \in Requests => m.group = req[m.token].group
  /\ \A r \in Requests : Issued(r) => Redeemable(r) \/ Spent(r) \/ req[r].group \notin groups

(* Nobody holds the token of a request that has not arrived.               *)
LEMMA UnbornHasNoToken ==
  ASSUME TokenInv, HistoryInv, NEW r \in Requests, pc[r] = "new"
  PROVE  /\ \A m \in members : m.token # r
         /\ won[r] = None /\ answer[r] = 0 /\ req[r].kind = "none"
BY DEF TokenInv, HistoryInv, Unissued, Unborn, Nothing, Asked

(* Every step keeps InviteInv: only a join takes the token away, and only  *)
(* a deletion of its group the row.                                        *)
LEMMA InviteStep ==
  ASSUME TypeInv, TokenInv, HistoryInv, InviteInv, [Next]_vars
  PROVE  InviteInv'
<1> USE DEF InviteInv, Issued, Redeemable, Spent, TypeInv, RequestsOK, rowVars, outVars,
            locVars, envVars
<1>1. ASSUME NEW r \in Requests, pc[r] \in Running,
             UNCHANGED <<groups, members, req, won>>,
             \/ UNCHANGED mailed
             \/ pc[r] = "inviteNotify" /\ mailed' \in {mailed, mailed \cup {r}},
             \/ \E label \in Running : Goto(r, label) /\
                  (label \in {"inviteNotify", "inviteShow"} => Issued(r))
             \/ \E code : Answer(r, code) /\
                  (req[r].kind = "invite" /\ code = 201 => Issued(r))
      PROVE  InviteInv'
  <2>1. ASSUME NEW label \in Running, Goto(r, label),
               label \in {"inviteNotify", "inviteShow"} => Issued(r)
        PROVE  InviteInv'
    BY <1>1, <2>1 DEF Goto, Running
  <2>2. ASSUME NEW code, Answer(r, code), req[r].kind = "invite" /\ code = 201 => Issued(r)
        PROVE  InviteInv'
    BY <1>1, <2>2 DEF Answer
  <2> QED
    BY <1>1, <2>1, <2>2
<1>2. ASSUME NEW r \in Requests,
             \/ InviteCheck(r) \/ InviteNotify(r) \/ InviteShow(r)
             \/ JoinShow(r) \/ Share(r) \/ OpenFetch(r) \/ Reply(r) \/ Fail(r)
      PROVE  InviteInv'
  <2> USE DEF InviteCheck, InviteNotify, InviteShow, JoinShow, Share, ShareMembers,
              ShareAudience, ShareInsert, ShareNotify, OpenFetch, Reply, Fail
  <2>1. pc[r] \in Running /\ UNCHANGED <<groups, members, req, won>>
    BY <1>2 DEF Running
  <2>2. \/ UNCHANGED mailed
        \/ pc[r] = "inviteNotify" /\ mailed' \in {mailed, mailed \cup {r}}
    BY <1>2
  <2>3. \/ \E label \in Running : Goto(r, label) /\
             (label \in {"inviteNotify", "inviteShow"} => Issued(r))
        \/ \E code : Answer(r, code) /\
             (req[r].kind = "invite" /\ code = 201 => Issued(r))
    BY <1>2 DEF Running, HistoryInv, InviteWay
  <2> QED
    BY <1>1, <2>1, <2>2, <2>3
<1>3. ASSUME NEW r \in Requests, InviteInsert(r)
      PROVE  InviteInv'
  <2> DEFINE row == Member(req[r].group, req[r].email, "invited", None, r)
  <2>1. pc[r] = "inviteInsert" /\ req[r].kind = "invite" /\ UNCHANGED <<groups, req, won, mailed>>
    BY <1>3 DEF InviteInsert, TokenInv
  <2>2. CASE UNCHANGED members /\ (Answer(r, 409) \/ Answer(r, 500))
    BY <1>1, <2>1, <2>2 DEF Running
  <2>3. CASE members' = members \cup {row} /\ Goto(r, "inviteNotify")
    <3>1. row.token = r /\ row.status = "invited" /\ row.group = req[r].group
      BY DEF Member
    <3>2. Redeemable(r)'
      BY <2>3, <3>1
    <3>3. \A s \in Requests : Redeemable(s) => Redeemable(s)'
      BY <2>3
    <3>4. \A s \in Requests : Issued(s)' => Issued(s) \/ s = r
      BY <2>1, <2>3 DEF Goto
    <3>5. \A m \in members' : m.token \in Requests => m.group = req'[m.token].group
      BY <2>1, <2>3, <3>1
    <3> QED
      BY <2>1, <3>2, <3>3, <3>4, <3>5
  <2> QED
    BY <1>3, <2>2, <2>3 DEF InviteInsert
<1>4. ASSUME NEW r \in Requests, NEW asked \in Requested, Ask(r, asked), UNCHANGED mailed,
             NEW label \in Running, Goto(r, label), label \notin {"inviteNotify", "inviteShow"}
      PROVE  /\ \A s \in Requests : Issued(s)' => Issued(s) /\ s # r
             /\ \A s \in Requests : s # r => req'[s] = req[s]
  BY <1>4, UnbornHasNoToken DEF Ask, Goto, HistoryInv, Unborn
<1>5. ASSUME NEW r \in Requests, NEW asked \in Requested, Ask(r, asked),
             UNCHANGED <<members, groups, won, mailed>>,
             \/ \E label \in Running \ {"inviteNotify", "inviteShow"} : Goto(r, label)
             \/ \E code : Answer(r, code) /\ code # 201
      PROVE  InviteInv'
  <2>1. \A s \in Requests : Issued(s)' => Issued(s) /\ s # r
    BY <1>5, UnbornHasNoToken DEF Ask, Goto, Answer, HistoryInv, Unborn, Running
  <2>2. \A s \in Requests : s # r => req'[s] = req[s]
    BY <1>5 DEF Ask
  <2>3. \A s \in Requests : Spent(s) => Spent(s)'
    BY <1>5, UnbornHasNoToken DEF Ask
  <2>4. \A m \in members : m.token # r /\ won[r] = None
    BY <1>5, UnbornHasNoToken DEF Ask
  <2> QED
    BY <1>5, <2>1, <2>2, <2>3, <2>4
<1>6. ASSUME NEW r \in Requests, NEW u \in Users, NEW g \in Ids, NEW e \in Emails,
             InviteLookup(r, u, g, e)
      PROVE  InviteInv'
  <2>1. Asked("invite", u, g, e, None) \in Requested
    BY DEF Asked, Requested, Ids
  <2> QED
    BY <1>5, <1>6, <2>1 DEF InviteLookup, Running
<1>7. ASSUME NEW r \in Requests, NEW u \in Users, NEW t \in Ids, JoinRefused(r, u, t)
      PROVE  InviteInv'
  <2>1. Asked("join", u, None, None, t) \in Requested
    BY DEF Asked, Requested, Ids
  <2> QED
    BY <1>5, <1>7, <2>1 DEF JoinRefused
<1>8. ASSUME NEW r \in Requests, NEW u \in Users, NEW S \in Recipients, ShareDirectly(r, u, S)
      PROVE  InviteInv'
  <2>1. Asked("share", u, None, None, None) \in Requested
    BY DEF Asked, Requested, Ids
  <2> QED
    BY <1>5, <1>8, <2>1 DEF ShareDirectly, Running
<1>9. ASSUME NEW r \in Requests, NEW u \in Users, NEW g \in Ids, NEW S \in Recipients,
             ShareLookup(r, u, g, S)
      PROVE  InviteInv'
  <2>1. Asked("share", u, g, None, None) \in Requested
    BY DEF Asked, Requested, Ids
  <2> QED
    BY <1>5, <1>9, <2>1 DEF ShareLookup, Running
<1>10. ASSUME NEW r \in Requests, NEW u \in Users, CreateGroup(r, u)
       PROVE  InviteInv'
  <2> DEFINE asked == Asked("create", u, r, None, None)
  <2>1. asked \in Requested
    BY DEF Asked, Requested, Ids
  <2>2. /\ Ask(r, asked) /\ UNCHANGED <<mailed, members, won>>
        /\ Goto(r, "reply") /\ groups' = groups \cup {r}
    BY <1>10 DEF CreateGroup
  <2>3. /\ \A s \in Requests : Issued(s)' => Issued(s) /\ s # r
        /\ \A s \in Requests : s # r => req'[s] = req[s]
    BY <1>4, <2>1, <2>2 DEF Running
  <2>4. \A s \in Requests : req[s].kind = "invite" => req[s].group # r
    BY <2>2 DEF HistoryInv, InviteWay, Unborn, Ask
  <2>5. \A s \in Requests : Spent(s) => Spent(s)'
    BY <2>2, UnbornHasNoToken DEF Ask
  <2>6. \A m \in members : m.token # r
    BY <2>2, UnbornHasNoToken DEF Ask
  <2> QED
    BY <2>2, <2>3, <2>4, <2>5, <2>6
<1>11. ASSUME NEW r \in Requests, NEW u \in Users, NEW g \in Ids, DeleteGroup(r, u, g)
       PROVE  InviteInv'
  <2> DEFINE asked == Asked("delete", u, g, None, None)
  <2>1. asked \in Requested
    BY DEF Asked, Requested, Ids
  <2>2. Ask(r, asked) /\ UNCHANGED <<mailed, won>>
    BY <1>11 DEF DeleteGroup
  <2>3. CASE Answer(r, 404) /\ UNCHANGED <<groups, members>>
    BY <1>5, <2>1, <2>2, <2>3
  <2>4. CASE Goto(r, "reply") /\ groups' = groups \ {g} /\ members' = MembersWithout(g)
    <3>1. /\ \A s \in Requests : Issued(s)' => Issued(s) /\ s # r
          /\ \A s \in Requests : s # r => req'[s] = req[s]
      BY <1>4, <2>1, <2>2, <2>4 DEF Running
    <3>2. \A s \in Requests : Spent(s) => Spent(s)'
      BY <2>2, UnbornHasNoToken DEF Ask
    <3>3. \A m \in members : m.token # r
      BY <2>2, UnbornHasNoToken DEF Ask
    <3>4. \A m \in members : m \in members' \/ m.group = g
      BY <2>4 DEF MembersWithout
    <3>5. \A m \in members' : m \in members
      BY <2>4 DEF MembersWithout
    <3>6. ASSUME NEW s \in Requests, Issued(s)'
          PROVE  Redeemable(s)' \/ Spent(s)' \/ req'[s].group \notin groups'
      <4>1. s # r /\ req'[s] = req[s] /\ Issued(s)
        BY <3>1, <3>6
      <4>2. CASE Spent(s) \/ req[s].group \notin groups
        BY <2>4, <3>2, <4>1, <4>2
      <4>3. CASE Redeemable(s)
        BY <2>4, <3>4, <4>1, <4>3
      <4> QED
        BY <4>1, <4>2, <4>3
    <3> QED
      BY <3>1, <3>3, <3>5, <3>6
  <2> QED
    BY <1>11, <2>3, <2>4 DEF DeleteGroup
<1>12. ASSUME NEW r \in Requests, NEW u \in Users, NEW t \in Ids, JoinMember(r, u, t)
       PROVE  InviteInv'
  <2> DEFINE asked == Asked("join", u, None, None, t)
  <2>1. asked \in Requested /\ asked.token = t
    BY DEF Asked, Requested, Ids
  <2>2. PICK m \in members :
          /\ m.token = t /\ m.status = "invited"
          /\ members' = (members \ {m}) \cup {Member(m.group, m.email, "joined", u, None)}
          /\ won' = [won EXCEPT ![r] = m.group]
    BY <1>12 DEF JoinMember
  <2>3. Ask(r, asked) /\ UNCHANGED <<mailed, groups>> /\ Goto(r, "joinShow")
    BY <1>12 DEF JoinMember
  <2>4. /\ \A s \in Requests : Issued(s)' => Issued(s) /\ s # r
        /\ \A s \in Requests : s # r => req'[s] = req[s]
    BY <1>4, <2>1, <2>3 DEF Running
  <2>5. \A s \in Requests : Spent(s) => Spent(s)'
    BY <2>2, <2>3, UnbornHasNoToken DEF Ask
  <2>6. won'[r] = m.group /\ m.group # None /\ req'[r].token = t
    BY <2>1, <2>2, <2>3 DEF MembersOK, Members, Ids, Ask
  <2>7. Spent(t)'
    BY <2>6
  <2>8. \A n \in members : n \in members' \/ n.token = t
    BY <2>2
  <2>9. \A n \in members' : n \in members \/ n.token = None
    BY <2>2 DEF Member
  <2>10. \A n \in members : n.token # r
    BY <2>3, UnbornHasNoToken DEF Ask
  <2>11. ASSUME NEW s \in Requests, Issued(s)'
         PROVE  Redeemable(s)' \/ Spent(s)' \/ req'[s].group \notin groups'
    <3>1. s # r /\ req'[s] = req[s] /\ Issued(s)
      BY <2>4, <2>11
    <3>2. CASE Spent(s) \/ req[s].group \notin groups
      BY <2>3, <2>5, <3>1, <3>2
    <3>3. CASE Redeemable(s)
      BY <2>7, <2>8, <3>3
    <3> QED
      BY <3>1, <3>2, <3>3
  <2> QED
    BY <2>4, <2>9, <2>10, <2>11
<1>13. ASSUME Crash
       PROVE  InviteInv'
  BY <1>13 DEF Crash, Running
<1>15. ASSUME NEW r \in Requests, NEW u \in Users, NEW t \in Requests, OpenLookup(r, u, t)
       PROVE  InviteInv'
  <2>1. Asked("open", u, None, None, t) \in Requested
    BY DEF Asked, Requested, Ids
  <2> QED
    BY <1>5, <1>15, <2>1 DEF OpenLookup, Running
<1>16. ASSUME TripDeleted
       PROVE  InviteInv'
  BY <1>16 DEF TripDeleted
<1>14. ASSUME UNCHANGED vars
       PROVE  InviteInv'
  BY <1>14 DEF vars
<1> QED
  <2>1. KnownGroups \subseteq Ids /\ KnownTokens \subseteq Ids /\ KnownLinks \subseteq Requests
    BY DEF KnownGroups, KnownTokens, KnownLinks, Ids
  <2>2. ASSUME NEW r \in Requests, NEW u \in Users, Arrive(r, u)
        PROVE  InviteInv'
    BY <2>1, <2>2, <1>6, <1>7, <1>8, <1>9, <1>10, <1>11, <1>12, <1>15 DEF Arrive
  <2> QED
    BY <2>2, <1>2, <1>3, <1>13, <1>14, <1>16 DEF Next, Invite

(* Whoever is joined has joined; a share is for the addresses that were    *)
(* listed or have joined, and has its row once it is in the mail.          *)
ShareInv ==
  /\ \A m \in members : m.status = "joined" => [group |-> m.group, email |-> m.email] \in joined
  /\ \A r \in Requests :
       /\ heard[r] \subseteq audience[r]
       /\ \A e \in audience[r] : e \in listed[r] \/ [group |-> req[r].group, email |-> e] \in joined
       /\ pc[r] = "shareNotify" \/ heard[r] # {} => \E s \in shares : s.token = r

(* A share whose group is deleted keeps its token (ON DELETE SET NULL).    *)
LEMMA SharesKeepTokens ==
  ASSUME GroupsOK, NEW g
  PROVE  \A s \in shares : \E x \in SharesWithout(g) : x.token = s.token
<1>1. ASSUME NEW s \in shares, s.group = g
      PROVE  \E x \in SharesWithout(g) : x.token = s.token
  <2> DEFINE x == [s EXCEPT !.group = None]
  <2>1. x \in SharesWithout(g)
    <3>1. x \in {[y EXCEPT !.group = None] : y \in {z \in shares : z.group = g}}
      BY <1>1, Zenon
    <3> HIDE DEF x
    <3> QED
      BY <3>1 DEF SharesWithout
  <2>2. s = [token |-> s.token, group |-> s.group]
    BY DEF GroupsOK
  <2>3. x.token = s.token
    BY <2>2
  <2> QED
    BY <2>1, <2>3
<1>2. ASSUME NEW s \in shares, s.group # g
      PROVE  s \in SharesWithout(g)
  BY <1>2 DEF SharesWithout
<1> QED
  BY <1>1, <1>2

(* Every step keeps ShareInv: nobody is ever struck from those who joined, *)
(* and no share loses its token.                                           *)
LEMMA ShareStep ==
  ASSUME TypeInv, HistoryInv, ShareInv, [Next]_vars
  PROVE  ShareInv'
<1> USE DEF ShareInv, TypeInv, RequestsOK, rowVars, outVars, locVars, envVars
<1> DEFINE Addressed(r, S) ==
             /\ listed' = [listed EXCEPT ![r] = S]
             /\ audience' = [audience EXCEPT ![r] = S]
<1>1. ASSUME NEW r \in Requests, pc[r] \in Running,
             UNCHANGED <<members, joined, shares, req, listed, audience, heard>>,
             \/ \E label \in Running \ {"shareNotify"} : Goto(r, label)
             \/ \E code : Answer(r, code)
      PROVE  ShareInv'
  <2>1. \A s \in Requests : pc'[s] = "shareNotify" => pc[s] = "shareNotify"
    BY <1>1 DEF Goto, Answer
  <2> QED
    BY <1>1, <2>1
<1>2. ASSUME NEW r \in Requests,
             \/ InviteCheck(r) \/ InviteNotify(r) \/ InviteShow(r)
             \/ JoinShow(r) \/ ShareMembers(r) \/ OpenFetch(r) \/ Reply(r) \/ Fail(r)
      PROVE  ShareInv'
  <2> USE DEF InviteCheck, InviteNotify, InviteShow, JoinShow, ShareMembers, OpenFetch, Reply,
          Fail
  <2>1. /\ pc[r] \in Running
        /\ UNCHANGED <<members, joined, shares, req, listed, audience, heard>>
    BY <1>2 DEF Running
  <2>2. \/ \E label \in Running \ {"shareNotify"} : Goto(r, label)
        \/ \E code : Answer(r, code)
    BY <1>2 DEF Running
  <2> QED
    BY <1>1, <2>1, <2>2
<1>3. ASSUME NEW r \in Requests, InviteInsert(r)
      PROVE  ShareInv'
  <2>1. \A m \in members' : m \in members \/ m.status = "invited"
    BY <1>3 DEF InviteInsert, Member
  <2>2. \A s \in Requests : pc'[s] = "shareNotify" => pc[s] = "shareNotify"
    BY <1>3 DEF InviteInsert, Goto, Answer
  <2> QED
    BY <1>3, <2>1, <2>2 DEF InviteInsert
<1>4. ASSUME NEW r \in Requests, ShareAudience(r)
      PROVE  ShareInv'
  <2> DEFINE g == req[r].group
             J == ListJoinedMemberEmails(g)
  <2>1. /\ UNCHANGED <<members, joined, shares, req, listed, heard>>
        /\ audience' = [audience EXCEPT ![r] = audience[r] \cup J]
        /\ Goto(r, "shareInsert")
    BY <1>4 DEF ShareAudience
  <2>2. \A e \in J : [group |-> g, email |-> e] \in joined
    BY DEF ListJoinedMemberEmails
  <2>3. \A s \in Requests : pc'[s] = "shareNotify" => pc[s] = "shareNotify"
    BY <2>1 DEF Goto
  <2>4. audience'[r] = audience[r] \cup J /\ \A s \in Requests \ {r} : audience'[s] = audience[s]
    BY <2>1
  <2> HIDE DEF J
  <2> QED
    BY <2>1, <2>2, <2>3, <2>4
<1>5. ASSUME NEW r \in Requests, ShareInsert(r)
      PROVE  ShareInv'
  <2>1. UNCHANGED <<members, joined, req, listed, audience, heard>>
    BY <1>5 DEF ShareInsert
  <2>2. \A s \in shares : s \in shares'
    BY <1>5 DEF ShareInsert
  <2>3. \A s \in Requests \ {r} : pc'[s] = pc[s]
    BY <1>5 DEF ShareInsert, Goto, Answer
  <2>4. pc'[r] = "shareNotify" => \E x \in shares' : x.token = r
    <3>1. CASE Answer(r, 500)
      BY <3>1 DEF Answer
    <3>2. CASE shares' = shares \cup {[token |-> r, group |-> req[r].group]}
      <4>1. [token |-> r, group |-> req[r].group] \in shares'
        BY <3>2
      <4> QED
        BY <4>1
    <3> QED
      BY <1>5, <3>1, <3>2 DEF ShareInsert
  <2>5. \A s \in Requests : pc'[s] = "shareNotify" \/ heard'[s] # {} => \E x \in shares' : x.token = s
    BY <2>1, <2>2, <2>3, <2>4
  <2> QED
    BY <2>1, <2>5
<1>6. ASSUME NEW r \in Requests, ShareNotify(r)
      PROVE  ShareInv'
  <2>1. pc[r] = "shareNotify" /\ UNCHANGED <<members, joined, shares, req, listed, audience>>
    BY <1>6 DEF ShareNotify
  <2>2. \A s \in Requests : heard'[s] = heard[s] \/ (s = r /\ heard'[s] = audience[r])
    BY <1>6 DEF ShareNotify
  <2>3. \A s \in Requests : pc'[s] = "shareNotify" => pc[s] = "shareNotify"
    BY <1>6 DEF ShareNotify, Answer
  <2> QED
    BY <2>1, <2>2, <2>3
<1>7. ASSUME NEW r \in Requests, NEW asked \in Requested, Ask(r, asked),
             UNCHANGED <<listed, audience, heard>>,
             \A x \in joined : x \in joined',
             \A s \in shares : \E x \in shares' : x.token = s.token,
             \A m \in members' :
               m.status = "joined" => [group |-> m.group, email |-> m.email] \in joined',
             \/ \E label \in Running \ {"shareNotify"} : Goto(r, label)
             \/ \E code : Answer(r, code)
      PROVE  ShareInv'
  <2>1. \A s \in Requests : pc'[s] = "shareNotify" => pc[s] = "shareNotify"
    BY <1>7 DEF Goto, Answer, Ask
  <2>2. audience[r] = {} /\ \A s \in Requests \ {r} : req'[s] = req[s]
    BY <1>7 DEF Ask, HistoryInv, Unborn
  <2> QED
    BY <1>7, <2>1, <2>2
<1>8. ASSUME NEW r \in Requests, NEW u \in Users, CreateGroup(r, u)
      PROVE  ShareInv'
  <2>1. Asked("create", u, r, None, None) \in Requested
    BY DEF Asked, Requested, Ids
  <2> QED
    BY <1>7, <1>8, <2>1 DEF CreateGroup, Running
<1>9. ASSUME NEW r \in Requests, NEW u \in Users, NEW g \in Ids, NEW e \in Emails,
             InviteLookup(r, u, g, e)
      PROVE  ShareInv'
  <2>1. Asked("invite", u, g, e, None) \in Requested
    BY DEF Asked, Requested, Ids
  <2> QED
    BY <1>7, <1>9, <2>1 DEF InviteLookup, Running
<1>10. ASSUME NEW r \in Requests, NEW u \in Users, NEW t \in Ids, JoinRefused(r, u, t)
       PROVE  ShareInv'
  <2>1. Asked("join", u, None, None, t) \in Requested
    BY DEF Asked, Requested, Ids
  <2> QED
    BY <1>7, <1>10, <2>1 DEF JoinRefused
<1>11. ASSUME NEW r \in Requests, NEW u \in Users, NEW t \in Ids, JoinMember(r, u, t)
       PROVE  ShareInv'
  <2>1. Asked("join", u, None, None, t) \in Requested
    BY DEF Asked, Requested, Ids
  <2>2. /\ Ask(r, Asked("join", u, None, None, t)) /\ Goto(r, "joinShow")
        /\ UNCHANGED <<listed, audience, heard, shares>>
    BY <1>11 DEF JoinMember
  <2>3. /\ \A x \in joined : x \in joined'
        /\ \A m \in members' :
             m.status = "joined" => [group |-> m.group, email |-> m.email] \in joined'
    BY <1>11 DEF JoinMember, Member
  <2> QED
    BY <1>7, <2>1, <2>2, <2>3 DEF Running
<1>12. ASSUME NEW r \in Requests, NEW u \in Users, NEW g \in Ids, DeleteGroup(r, u, g)
       PROVE  ShareInv'
  <2>1. Asked("delete", u, g, None, None) \in Requested
    BY DEF Asked, Requested, Ids
  <2>2. /\ Ask(r, Asked("delete", u, g, None, None))
        /\ UNCHANGED <<listed, audience, heard, joined>>
        /\ Goto(r, "reply") \/ Answer(r, 404)
    BY <1>12 DEF DeleteGroup
  <2>3. \A m \in members' : m \in members
    BY <1>12 DEF DeleteGroup, MembersWithout
  <2>4. \A s \in shares : \E x \in shares' : x.token = s.token
    BY <1>12, SharesKeepTokens DEF DeleteGroup
  <2> QED
    BY <1>7, <2>1, <2>2, <2>3, <2>4 DEF Running
<1>13. ASSUME NEW r \in Requests, NEW S \in Recipients, NEW asked \in Requested, Ask(r, asked),
              UNCHANGED <<members, joined, shares, heard>>,
              Addressed(r, S),
              \/ \E label \in Running \ {"shareNotify"} : Goto(r, label)
              \/ \E code : Answer(r, code)
       PROVE  ShareInv'
  <2>1. \A s \in Requests : pc'[s] = "shareNotify" => pc[s] = "shareNotify"
    BY <1>13 DEF Goto, Answer, Ask
  <2>2. heard[r] = {}
    BY <1>13 DEF Ask, HistoryInv, Unborn
  <2>3. \A s \in Requests \ {r} : /\ req'[s] = req[s]
                                  /\ listed'[s] = listed[s] /\ audience'[s] = audience[s]
    BY <1>13 DEF Ask
  <2>4. listed'[r] = S /\ audience'[r] = S
    BY <1>13
  <2> QED
    BY <1>13, <2>1, <2>2, <2>3, <2>4
<1> HIDE DEF Addressed
<1>14. ASSUME NEW r \in Requests, NEW u \in Users, NEW S \in Recipients, ShareDirectly(r, u, S)
       PROVE  ShareInv'
  <2>1. Asked("share", u, None, None, None) \in Requested
    BY DEF Asked, Requested, Ids
  <2>2. /\ Ask(r, Asked("share", u, None, None, None)) /\ Goto(r, "shareInsert")
        /\ UNCHANGED <<members, joined, shares, heard>>
        /\ Addressed(r, S)
    BY <1>14 DEF ShareDirectly, Addressed
  <2> QED
    BY <1>13, <2>1, <2>2 DEF Running
<1>15. ASSUME NEW r \in Requests, NEW u \in Users, NEW g \in Ids, NEW S \in Recipients,
              ShareLookup(r, u, g, S)
       PROVE  ShareInv'
  <2>1. Asked("share", u, g, None, None) \in Requested
    BY DEF Asked, Requested, Ids
  <2>2. /\ Ask(r, Asked("share", u, g, None, None)) /\ (Goto(r, "shareMembers") \/ Answer(r, 404))
        /\ UNCHANGED <<members, joined, shares, heard>>
        /\ Addressed(r, S)
    BY <1>15 DEF ShareLookup, Addressed
  <2> QED
    BY <1>13, <2>1, <2>2 DEF Running
<1>16. ASSUME Crash
       PROVE  ShareInv'
  <2>1. \A s \in Requests : pc'[s] = "shareNotify" => pc[s] = "shareNotify"
    BY <1>16 DEF Crash
  <2> QED
    BY <1>16, <2>1 DEF Crash
<1>18. ASSUME NEW r \in Requests, NEW u \in Users, NEW t \in Requests, OpenLookup(r, u, t)
       PROVE  ShareInv'
  <2>1. Asked("open", u, None, None, t) \in Requested
    BY DEF Asked, Requested, Ids
  <2> QED
    BY <1>7, <1>18, <2>1 DEF OpenLookup, Running
<1>19. ASSUME TripDeleted
       PROVE  ShareInv'
  BY <1>19 DEF TripDeleted
<1>17. ASSUME UNCHANGED vars
       PROVE  ShareInv'
  BY <1>17 DEF vars
<1> QED
  <2>1. KnownGroups \subseteq Ids /\ KnownTokens \subseteq Ids /\ KnownLinks \subseteq Requests
    BY DEF KnownGroups, KnownTokens, KnownLinks, Ids
  <2>2. ASSUME NEW r \in Requests, NEW u \in Users, Arrive(r, u)
        PROVE  ShareInv'
    BY <2>1, <2>2, <1>8, <1>9, <1>10, <1>11, <1>12, <1>14, <1>15, <1>18 DEF Arrive
  <2> QED
    BY <2>2, <1>2, <1>3, <1>4, <1>5, <1>6, <1>16, <1>17, <1>19 DEF Next, Invite, Share

(* A share that was answered 201 has its row, and a link is told to be     *)
(* dead only when the itinerary is not there.                              *)
LinkInv ==
  \A r \in Requests :
    /\ pc[r] = "reply" => req[r].kind \in {"create", "delete"}
    /\ pc[r] = "joinShow" => req[r].kind = "join"
    /\ req[r].kind = "share" /\ answer[r] = 201 => \E s \in shares : s.token = r
    /\ req[r].kind = "open" /\ answer[r] = 404 => ~trip

(* Every step keeps LinkInv: a link that somebody holds finds its row, and *)
(* an itinerary that is gone does not come back.                           *)
LEMMA LinkStep ==
  ASSUME TypeInv, TokenInv, InviteInv, ShareInv, LinkInv, [Next]_vars
  PROVE  LinkInv'
<1> USE DEF TypeInv, RequestsOK, TokenInv, LinkInv, rowVars, outVars, locVars, envVars
<1> DEFINE Kept == /\ trip' = trip
                   /\ \A s \in shares : \E x \in shares' : x.token = s.token
<1>1. ASSUME NEW r \in Requests, pc[r] \in Running, UNCHANGED req, Kept,
             \/ \E label \in Running \ {"reply", "joinShow"} : Goto(r, label)
             \/ \E code : /\ Answer(r, code)
                          /\ code = 201 => req[r].kind # "share" \/ pc[r] = "shareNotify"
                          /\ code = 404 => req[r].kind # "open" \/ ~trip
      PROVE  LinkInv'
  <2>1. CASE \E label \in Running \ {"reply", "joinShow"} : Goto(r, label)
    BY <1>1, <2>1 DEF Goto
  <2>2. ASSUME NEW code, Answer(r, code),
               code = 201 => req[r].kind # "share" \/ pc[r] = "shareNotify",
               code = 404 => req[r].kind # "open" \/ ~trip
        PROVE  LinkInv'
    <3>1. pc[r] = "shareNotify" => \E s \in shares : s.token = r
      BY DEF ShareInv
    <3> QED
      BY <1>1, <2>2, <3>1 DEF Answer
  <2> QED
    BY <1>1, <2>1, <2>2
<1>2. ASSUME NEW r \in Requests,
             \/ InviteCheck(r) \/ InviteInsert(r) \/ InviteNotify(r) \/ InviteShow(r)
             \/ JoinShow(r) \/ Share(r) \/ OpenFetch(r) \/ Reply(r) \/ Fail(r)
      PROVE  LinkInv'
  <2> USE DEF InviteCheck, InviteInsert, InviteNotify, InviteShow, JoinShow, Share, ShareMembers,
              ShareAudience, ShareInsert, ShareNotify, OpenFetch, Reply, Fail
  <2>1. pc[r] \in Running /\ UNCHANGED req /\ Kept
    BY <1>2 DEF Running
  <2>2. /\ pc[r] = "inviteShow" => req[r].kind = "invite"
        /\ pc[r] = "inviteCheck" => req[r].kind = "invite"
        /\ pc[r] = "shareMembers" => req[r].kind = "share"
    BY DEF InviteInv, Issued
  <2>3. \/ \E label \in Running \ {"reply", "joinShow"} : Goto(r, label)
        \/ \E code : /\ Answer(r, code)
                     /\ code = 201 => req[r].kind # "share" \/ pc[r] = "shareNotify"
                     /\ code = 404 => req[r].kind # "open" \/ ~trip
    BY <1>2, <2>2 DEF Running
  <2> QED
    BY <1>1, <2>1, <2>3
<1>3. ASSUME NEW r \in Requests, NEW asked \in Requested, Ask(r, asked), Kept,
             \/ \E label \in Running : /\ Goto(r, label)
                                       /\ label = "reply" => asked.kind \in {"create", "delete"}
                                       /\ label = "joinShow" => asked.kind = "join"
             \/ \E code : /\ Answer(r, code) /\ code # 201
                          /\ code = 404 => asked.kind # "open"
      PROVE  LinkInv'
  <2> USE DEF Ask
  <2>1. ASSUME NEW label \in Running, Goto(r, label),
               label = "reply" => asked.kind \in {"create", "delete"},
               label = "joinShow" => asked.kind = "join"
        PROVE  LinkInv'
    BY <1>3, <2>1 DEF Goto
  <2>2. ASSUME NEW code, Answer(r, code), code # 201, code = 404 => asked.kind # "open"
        PROVE  LinkInv'
    BY <1>3, <2>2 DEF Answer
  <2> QED
    BY <1>3, <2>1, <2>2
<1>4. ASSUME NEW r \in Requests, NEW u \in Users, CreateGroup(r, u)
      PROVE  LinkInv'
  <2>1. Asked("create", u, r, None, None) \in Requested
    BY DEF Asked, Requested, Ids
  <2> QED
    BY <1>3, <1>4, <2>1 DEF CreateGroup, Asked, Running
<1>5. ASSUME NEW r \in Requests, NEW u \in Users, NEW g \in Ids, NEW e \in Emails,
             InviteLookup(r, u, g, e)
      PROVE  LinkInv'
  <2>1. Asked("invite", u, g, e, None) \in Requested
    BY DEF Asked, Requested, Ids
  <2> QED
    BY <1>3, <1>5, <2>1 DEF InviteLookup, Asked, Running
<1>6. ASSUME NEW r \in Requests, NEW u \in Users, NEW t \in Ids,
             JoinMember(r, u, t) \/ JoinRefused(r, u, t)
      PROVE  LinkInv'
  <2>1. Asked("join", u, None, None, t) \in Requested
    BY DEF Asked, Requested, Ids
  <2> QED
    BY <1>3, <1>6, <2>1 DEF JoinMember, JoinRefused, Asked, Running
<1>7. ASSUME NEW r \in Requests, NEW u \in Users, NEW S \in Recipients, ShareDirectly(r, u, S)
      PROVE  LinkInv'
  <2>1. Asked("share", u, None, None, None) \in Requested
    BY DEF Asked, Requested, Ids
  <2> QED
    BY <1>3, <1>7, <2>1 DEF ShareDirectly, Asked, Running
<1>8. ASSUME NEW r \in Requests, NEW u \in Users, NEW g \in Ids, NEW S \in Recipients,
             ShareLookup(r, u, g, S)
      PROVE  LinkInv'
  <2>1. Asked("share", u, g, None, None) \in Requested
    BY DEF Asked, Requested, Ids
  <2> QED
    BY <1>3, <1>8, <2>1 DEF ShareLookup, Asked, Running
<1>9. ASSUME NEW r \in Requests, NEW u \in Users, NEW g \in Ids, DeleteGroup(r, u, g)
      PROVE  LinkInv'
  <2>1. Asked("delete", u, g, None, None) \in Requested
    BY DEF Asked, Requested, Ids
  <2>2. Kept
    <3>1. shares' = shares \/ shares' = SharesWithout(g)
      BY <1>9 DEF DeleteGroup
    <3> QED
      BY <1>9, <3>1, SharesKeepTokens DEF DeleteGroup
  <2>3. Ask(r, Asked("delete", u, g, None, None)) /\ (Goto(r, "reply") \/ Answer(r, 404))
    BY <1>9 DEF DeleteGroup
  <2> QED
    BY <1>3, <2>1, <2>2, <2>3 DEF Asked, Running
<1>10. ASSUME NEW r \in Requests, NEW u \in Users, NEW t \in KnownLinks, OpenLookup(r, u, t)
       PROVE  LinkInv'
  <2>1. Asked("open", u, None, None, t) \in Requested
    BY DEF Asked, Requested, KnownLinks, Ids
  <2>2. \E s \in shares : s.token = t
    BY DEF KnownLinks, ShareInv
  <2>3. Ask(r, Asked("open", u, None, None, t)) /\ Goto(r, "openFetch") /\ Kept
    BY <1>10, <2>2 DEF OpenLookup
  <2> QED
    BY <1>3, <2>1, <2>3 DEF Asked, Running
<1>11. ASSUME TripDeleted
       PROVE  LinkInv'
  BY <1>11 DEF TripDeleted
<1>12. ASSUME Crash
       PROVE  LinkInv'
  BY <1>12 DEF Crash, Running
<1>13. ASSUME UNCHANGED vars
       PROVE  LinkInv'
  BY <1>13 DEF vars
<1> QED
  <2>1. KnownGroups \subseteq Ids /\ KnownTokens \subseteq Ids
    BY DEF KnownGroups, KnownTokens, Ids
  <2>2. ASSUME NEW r \in Requests, NEW u \in Users, Arrive(r, u)
        PROVE  LinkInv'
    BY <2>1, <2>2, <1>4, <1>5, <1>6, <1>7, <1>8, <1>9, <1>10 DEF Arrive
  <2> QED
    BY <2>2, <1>2, <1>11, <1>12, <1>13 DEF Next, Invite

-----------------------------------------------------------------------------
(* The parts together, and what follows from them.                         *)

PromiseInv == TypeInv /\ TokenInv /\ HistoryInv /\ InviteInv /\ ShareInv /\ LinkInv

(* The seeded database satisfies all of them.                              *)
LEMMA InitPromise == Init => PromiseInv
<1> SUFFICES ASSUME Init PROVE PromiseInv
  OBVIOUS
<1> USE DEF Init, Member, Nothing, Asked
<1>1. TypeInv
  BY InitTyped
<1>2. TokenInv
  BY DEF TokenInv, TokenSpentOnce, Unissued, Spent
<1>3. HistoryInv
  BY DEF HistoryInv, Unborn, InviteWay, Ids
<1>4. InviteInv
  BY DEF InviteInv, Issued
<1>5. ShareInv
  BY DEF ShareInv
<1>6. LinkInv
  BY DEF LinkInv
<1> QED
  BY <1>1, <1>2, <1>3, <1>4, <1>5, <1>6 DEF PromiseInv

(* Every step keeps all of them.                                           *)
LEMMA PromiseStep == PromiseInv /\ [Next]_vars => PromiseInv'
BY TypeStep, TokenStep, HistoryStep, InviteStep, ShareStep, LinkStep DEF PromiseInv

(* Whoever loses a race of invitations is told 403, 404 or 409 and leaves  *)
(* nothing behind; a 500 needs a failure or a deletion that overtook it    *)
(* (groups.routes.ts:157-166).                                             *)
THEOREM RacesAreAnswered == Spec => []LosersAreTold
<1>1. PromiseInv => LosersAreTold
  BY DEF PromiseInv, LosersAreTold, TokenInv, Unissued, HistoryInv, InviteWay
<1> QED
  BY <1>1, InitPromise, PromiseStep, PTL DEF Spec

(* The token of an invitation that was mailed or answered can be redeemed, *)
(* or was, or its group is gone (groups.routes.ts:120-127, 167-179).       *)
THEOREM InvitesStayAlive == Spec => []NoDeadInvite
<1>1. PromiseInv => NoDeadInvite
  BY DEF PromiseInv, NoDeadInvite, InviteInv, Issued, Redeemable, Spent
<1> QED
  BY <1>1, InitPromise, PromiseStep, PTL DEF Spec

(* A share is mailed to the addresses that the sharer listed and to those  *)
(* who had joined its group (shares.routes.ts:35-37,                       *)
(* toolsRepository.ts:266).                                                *)
THEOREM SharesReachTheJoined == Spec => []SharedWithJoinedOnly
<1>1. PromiseInv => SharedWithJoinedOnly
  BY DEF PromiseInv, SharedWithJoinedOnly, ShareInv
<1> QED
  BY <1>1, InitPromise, PromiseStep, PTL DEF Spec

(* Whoever was given a link is answered 404 only if the itinerary is not   *)
(* there: neither the deletion of its group nor a mail that overtakes the  *)
(* row takes the link away (shares.routes.ts:71-98, 101-131).              *)
THEOREM LinksSurviveGroups == Spec => []LinksOutliveGroups
<1>1. PromiseInv => LinksOutliveGroups
  BY DEF PromiseInv, LinksOutliveGroups, LinkInv
<1> QED
  BY <1>1, InitPromise, PromiseStep, PTL DEF Spec

=============================================================================
