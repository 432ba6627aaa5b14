------------------------------ MODULE Sessions ------------------------------
(***************************************************************************)
(* Registration, login and refresh-token rotation: the handlers of         *)
(* apps/api/routes/auth.py over the helpers of apps/api/services.  Each    *)
(* handler is one transaction that get_db commits when it returns and      *)
(* rolls back when it raises.  PostgreSQL makes an INSERT of a unique value *)
(* wait for the transaction that inserted it first, and an UPDATE wait for *)
(* the one that updated the row.                                           *)
(***************************************************************************)
EXTENDS Naturals, FiniteSets

CONSTANTS
  Handlers,      \* requests to the three endpoints
  Emails,        \* users, by their unique email
  Slugs,         \* organizations, by their unique slug
  MaxTokens      \* bound on the refresh tokens ever issued

(* "none" marks an absent row, it is no email. *)
ASSUME SessionsAssumption == MaxTokens \in Nat /\ "none" \notin Emails

Tokens == 1 .. MaxTokens

VARIABLES
  users,         \* committed User rows
  organizations, \* committed Organization rows
  members,       \* committed OrganizationMembership rows, <<email, slug>>
  tokens,        \* committed RefreshToken rows
  handler        \* the requests

sessionVars == <<users, organizations, members, tokens, handler>>
-----------------------------------------------------------------------------
NoToken == [user |-> "none", revoked |-> FALSE, expired |-> FALSE, parent |-> 0, after |-> {}]
Fresh(user, parent, after) ==
  [NoToken EXCEPT !.user = user, !.parent = parent, !.after = after]

NewHandler == [pc |-> "new", email |-> "none", slug |-> "none", token |-> 0, after |-> {}]

SessionsInit ==
  /\ users = {}
  /\ organizations = {}
  /\ members = {}
  /\ tokens = [t \in Tokens |-> NoToken]
  /\ handler = [h \in Handlers |-> NewHandler]

Stored == {t \in Tokens : tokens[t].user # "none"}

(* A random value: no other request holds or stored it. *)
Unused(t) == t \notin Stored /\ \A s \in Tokens : s < t => s \in Stored

Goto(h, pc) == handler' = [handler EXCEPT ![h].pc = pc]
Answer(h, pc) == handler' = [handler EXCEPT ![h] = [NewHandler EXCEPT !.pc = pc]]
Reject(h) == Answer(h, "rejected")
-----------------------------------------------------------------------------
(* register. *)

CheckRegistration(h, email, slug) ==
  /\ handler[h].pc = "new"
  /\ handler' = [handler EXCEPT ![h] =
       IF email \in users \/ slug \in organizations
       THEN [NewHandler EXCEPT !.pc = "rejected"]
       ELSE [NewHandler EXCEPT !.pc = "checked", !.email = email, !.slug = slug]]
  /\ UNCHANGED <<users, organizations, members, tokens>>

(* The transactions that have flushed their User, or their Organization. *)
HoldsEmail(email) ==
  {h \in Handlers : handler[h].email = email /\ handler[h].pc \in {"user", "organization"}}
HoldsSlug(slug) ==
  {h \in Handlers : handler[h].slug = slug /\ handler[h].pc = "organization"}

(* Committed while the handler works: nothing, all of it is one transaction. *)
UserCommitsNow(email) == users \union {email}       \* mutant: create_user commits
UserCommits(email) == users

InsertUser(h) ==
  LET email == handler[h].email IN
  /\ handler[h].pc = "checked"
  /\ HoldsEmail(email) = {}
  /\ IF email \in users
     THEN Reject(h) /\ UNCHANGED users
     ELSE Goto(h, "user") /\ users' = UserCommits(email)
  /\ UNCHANGED <<organizations, members, tokens>>

InsertOrganization(h) ==
  LET slug == handler[h].slug IN
  /\ handler[h].pc = "user"
  /\ HoldsSlug(slug) = {}
  /\ IF slug \in organizations THEN Reject(h) ELSE Goto(h, "organization")
  /\ UNCHANGED <<users, organizations, members, tokens>>

(* Membership, refresh token and audit event follow; then the commit. *)
CommitRegistration(h) ==
  LET me == handler[h] IN
  /\ me.pc = "organization"
  /\ \E t \in Tokens :
       /\ Unused(t)
       /\ tokens' = [tokens EXCEPT ![t] = Fresh(me.email, 0, {})]
  /\ users' = users \union {me.email}
  /\ organizations' = organizations \union {me.slug}
  /\ members' = members \union {<<me.email, me.slug>>}
  /\ Answer(h, "done")
-----------------------------------------------------------------------------
(* login: the token of a new session. *)
Login(h, email) ==
  /\ handler[h].pc = "new"
  /\ email \in users
  /\ \E t \in Tokens :
       /\ Unused(t)
       /\ tokens' = [tokens EXCEPT ![t] = Fresh(email, 0, {})]
  /\ Answer(h, "done")
  /\ UNCHANGED <<users, organizations, members>>
-----------------------------------------------------------------------------
(* refresh. *)
Valid(t) == t \in Stored /\ ~tokens[t].revoked /\ ~tokens[t].expired

Validate(h, t) ==
  /\ handler[h].pc = "new"
  /\ t \in Stored
  /\ handler' = [handler EXCEPT ![h] =
       IF Valid(t) THEN [NewHandler EXCEPT !.pc = "valid", !.token = t, !.after = Stored]
       ELSE [NewHandler EXCEPT !.pc = "rejected"]]
  /\ UNCHANGED <<users, organizations, members, tokens>>

(* The UPDATE that revokes the token is flushed. *)
Rotating(t) == {h \in Handlers : handler[h].token = t /\ handler[h].pc = "revoked"}

Revoke(h) ==
  /\ handler[h].pc = "valid"
  /\ Rotating(handler[h].token) = {}
  /\ Goto(h, "revoked")
  /\ UNCHANGED <<users, organizations, members, tokens>>

(* The new token is stored and both changes are committed. *)
RevokedNot(t) == tokens[t]              \* mutant: no rotation
RevokedRow(t) == [tokens[t] EXCEPT !.revoked = TRUE]

CommitRefresh(h) ==
  LET me == handler[h] IN
  /\ me.pc = "revoked"
  /\ \E t \in Tokens :
       /\ Unused(t)
       /\ tokens' = [tokens EXCEPT
            ![me.token] = RevokedRow(me.token),
            ![t] = Fresh(tokens[me.token].user, me.token, me.after)]
  /\ Answer(h, "done")
  /\ UNCHANGED <<users, organizations, members>>
-----------------------------------------------------------------------------
(* Any handler may raise before its commit, which rolls everything back: a
   token whose refresh failed stays usable. *)
RollBackRequest(h) ==
  /\ handler[h].pc \in {"checked", "user", "organization", "valid", "revoked"}
  /\ Reject(h)
  /\ UNCHANGED <<users, organizations, members, tokens>>

ExpireToken(t) ==
  /\ Valid(t)
  /\ tokens' = [tokens EXCEPT ![t].expired = TRUE]
  /\ UNCHANGED <<users, organizations, members, handler>>

SessionsNext ==
  \/ \E h \in Handlers, email \in Emails, slug \in Slugs : CheckRegistration(h, email, slug)
  \/ \E h \in Handlers : InsertUser(h) \/ InsertOrganization(h) \/ CommitRegistration(h)
  \/ \E h \in Handlers, email \in Emails : Login(h, email)
  \/ \E h \in Handlers, t \in Tokens : Validate(h, t)
  \/ \E h \in Handlers : Revoke(h) \/ CommitRefresh(h) \/ RollBackRequest(h)
  \/ \E t \in Tokens : ExpireToken(t)

SessionsSpec == SessionsInit /\ [][SessionsNext]_sessionVars
-----------------------------------------------------------------------------
(* Registration is all or nothing, whatever else registers meanwhile: every
   user belongs to an organization, every organization has exactly the one
   member that registered it, and whoever can sign in can refresh. *)
TenantsAreWhole ==
  /\ members \subseteq users \X organizations
  /\ \A email \in users : \E slug \in organizations : <<email, slug>> \in members
  /\ \A slug \in organizations : Cardinality({m \in members : m[2] = slug}) = 1
  /\ \A email \in users : \E t \in Tokens : tokens[t].user = email

(* Rotation is a chain: a token that was exchanged is not usable again, and it
   has two successors only if both refreshes had read it before either was
   committed. *)
RotationForksOnlyConcurrently ==
  \A s, t \in Stored :
    /\ tokens[s].parent = t => ~Valid(t)
    /\ s # t /\ tokens[s].parent = tokens[t].parent /\ tokens[s].parent # 0 =>
         s \notin tokens[t].after /\ t \notin tokens[s].after
=============================================================================
