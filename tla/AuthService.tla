----------------------------- MODULE AuthService -----------------------------
(***************************************************************************)
(* auth-service: the users table, whose rows the first GET /me after a     *)
(* sign-in creates, and the travel preferences of a user.  Every handler   *)
(* is one statement, but for /me, which reads the preferences as well; a   *)
(* handler that fails after its statement has done its work all the same.  *)
(***************************************************************************)
EXTENDS Naturals

CONSTANTS
  People,     \* the subs of the tokens
  NoRow

VARIABLES
  users,         \* the name in the row of each user, or NoRow
  demographics   \* the preferences of each user, or NoRow

authVars == <<users, demographics>>

\* Names: the default of upsertFromClaims, the one in the token, an edited one.
NewUser == "New User"
Names   == {NewUser, "claimed", "edited"}

\* A field of the preferences: what a user had stored, something newly typed,
\* or what the DDL or the form puts in its place.  The purposes, which the edit
\* form keeps until one of their boxes changes, are left out.
Values  == People \cup {"typed", "default"}
Fields  == {"budget", "travelType", "partySize"}
Rows    == [Fields -> Values]
Nothing == [f \in Fields |-> "default"]

ASSUME AuthAssumption == NoRow \notin Names /\ NoRow \notin Rows

AuthTypeOK ==
  /\ users \in [People -> Names \cup {NoRow}]
  /\ demographics \in [People -> Rows \cup {NoRow}]
  /\ \A u \in People : demographics[u] # NoRow => users[u] # NoRow

\* The seed has a user with preferences; others are there after their first /me.
AuthInit ==
  \E seeded \in SUBSET People :
    /\ users = [u \in People |-> IF u \in seeded THEN "claimed" ELSE NoRow]
    /\ demographics = [u \in People |->
         IF u \in seeded THEN [f \in Fields |-> u] ELSE NoRow]

-----------------------------------------------------------------------------
\* Mutant: the update takes EXCLUDED.name, which is never null.
UpsertedExcluded(u, named) == IF named THEN "claimed" ELSE NewUser

\* upsertFromClaims; a token may lack the claim.
Upserted(u, named) ==
  IF named THEN "claimed" ELSE IF users[u] = NoRow THEN NewUser ELSE users[u]

GetMe(u, named) ==
  /\ users' = [users EXCEPT ![u] = Upserted(u, named)]
  /\ UNCHANGED demographics

\* GET /profile and PATCH /profile answer 404 without a row.
HasProfile(u) == users[u] # NoRow

PatchProfile(u) ==
  /\ HasProfile(u)
  /\ users' = [users EXCEPT ![u] = "edited"]
  /\ UNCHANGED demographics

\* GET /demographics answers with the defaults when there is no row.
Demographics(u) == IF demographics[u] = NoRow THEN Nothing ELSE demographics[u]

\* PUT /demographics replaces the row; without a user row the foreign key
\* fails, which is a 404.  A party size that is no number is a 400.
PutDemographics(u, row) ==
  /\ HasProfile(u)
  /\ demographics' = [demographics EXCEPT ![u] = row]
  /\ UNCHANGED users

-----------------------------------------------------------------------------
\* A name that a user has is never replaced by the placeholder again, although
\* tokens without a name claim go through the same upsert.
NameNeverForgotten ==
  [][\A u \in People : users[u] \in {"claimed", "edited"} => users'[u] # NewUser]_authVars

=============================================================================
