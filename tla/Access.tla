------------------------------- MODULE Access -------------------------------
(***************************************************************************)
(* Who may do what: the roles accounts hold, the one role a request acts   *)
(* as, and the three places that look at it, each in a step of its own: a  *)
(* session that keeps the role it shows, the routes (requireAuth and       *)
(* requirePermission) and the database functions (lock_acting_role).       *)
(* Administrators change each other's roles meanwhile.                     *)
(***************************************************************************)
EXTENDS Integers, FiniteSets, Permissions, NoValue

CONSTANT Accounts     \* accounts, with one browser session each

ASSUME NoneIsNoRole == None \notin Roles

VARIABLES inPlay,     \* bound: the roles the accounts of a behaviour hold
          held,       \* public.account_roles
          session,    \* the session each account's browser stores, or closed
          sent        \* the request each account has in flight

accessVars == <<inPlay, held, session, sent>>

-----------------------------------------------------------------------------
(* The role a request acts as: the one it names, else the least privileged. *)

First(roles) == DefaultOrder[CHOOSE i \in DOMAIN DefaultOrder :
                               /\ DefaultOrder[i] \in roles
                               /\ \A j \in 1 .. i - 1 : DefaultOrder[j] \notin roles]

SelectActingRole(roles, requested) ==
  IF requested # None THEN (IF requested \in roles THEN requested ELSE None)
                      ELSE First(roles)

-----------------------------------------------------------------------------
(* The browser: the stored session, with the role it shows and the roles    *)
(* the account held when it signed in.                                      *)

Closed == [open |-> FALSE, role |-> None, roles |-> {}]
Opened(role, roles) == [open |-> TRUE, role |-> role, roles |-> roles]

RolesKept == UNCHANGED <<inPlay, held>>

SignIn(a) ==
  /\ ~session[a].open
  /\ session' = [session EXCEPT ![a] = Opened(SelectActingRole(held[a], None), held[a])]
  /\ RolesKept /\ UNCHANGED sent

(* Sign-out clears the session whether or not the server confirms it; what  *)
(* was sent before it is under way all the same.                            *)
SignOut(a) ==
  /\ session[a].open
  /\ session' = [session EXCEPT ![a] = Closed]
  /\ RolesKept /\ UNCHANGED sent

SwitchRole(a) ==
  /\ \E role \in session[a].roles \ {session[a].role} :
       session' = [session EXCEPT ![a] = Opened(role, session[a].roles)]
  /\ RolesKept /\ UNCHANGED sent

(* Only a session of several roles names the one it acts as. *)
ActingRoleHeader(a) == IF Cardinality(session[a].roles) > 1 THEN session[a].role ELSE None

(* Permissions load once for a session and role; only an answer that the    *)
(* role is not held any more changes the session: it signs the account out. *)
AccessRefused(a) ==
  /\ session[a].open
  /\ SelectActingRole(held[a], ActingRoleHeader(a)) = None
  /\ session' = [session EXCEPT ![a] = Closed]
  /\ RolesKept /\ UNCHANGED sent

-----------------------------------------------------------------------------
(* A request.  Its role is settled when it is authorised, with the roles    *)
(* held then, and looked at again by the database function.  One request    *)
(* stands for every action that takes the same steps: actions are those it  *)
(* may still be for.                                                        *)

Sent(actions, header, target) ==
  [actions |-> actions, header |-> header, target |-> target, acting |-> None]
NothingSent == Sent({}, None, None)

ChangesRoles == {"users.role.update"}

Send(a) ==
  /\ sent[a] = NothingSent
  /\ session[a].open
  /\ \/ \E target \in Accounts :
          sent' = [sent EXCEPT ![a] = Sent(ChangesRoles, ActingRoleHeader(a), target)]
     \/ sent' = [sent EXCEPT ![a] = Sent(Actions \ ChangesRoles, ActingRoleHeader(a), None)]
  /\ RolesKept /\ UNCHANGED session

SentEnds(a) == sent' = [sent EXCEPT ![a] = NothingSent]

(* requireAuth and requirePermission; nobody changes their own roles. *)
Authorize(a) ==
  /\ sent[a] # NothingSent /\ sent[a].acting = None
  /\ LET acting  == SelectActingRole(held[a], sent[a].header)
         allowed == IF acting = None THEN {} ELSE sent[a].actions \cap PermissionsFor(acting) IN
       IF allowed # {} /\ sent[a].target # a
         THEN sent' = [sent EXCEPT ![a].acting = acting, ![a].actions = allowed]
         ELSE SentEnds(a)
  /\ RolesKept /\ UNCHANGED session

(* lock_acting_role() and the function's own check; what the function then  *)
(* does is in the module of its component.                                  *)
Admits(action, a) == sent[a].acting \in held[a] \cap FunctionRoles(action)

Execute(a) ==
  /\ sent[a].acting # None
  /\ sent[a].actions # ChangesRoles
  /\ SentEnds(a)
  /\ RolesKept /\ UNCHANGED session

(* MUTANT of MayChange: the role the route settled is trusted.             *)
MayChangeUnlocked(actor, target) == actor # target

(* change_account_roles, under the locks of both accounts' roles.  The      *)
(* route replaces every role by one; more roles are granted, and taken      *)
(* away, by calling it in SQL.                                              *)
MayChange(actor, target) == actor # target /\ Technical \in held[actor]

ChangeRoles(a) ==
  /\ sent[a].acting # None
  /\ sent[a].actions = ChangesRoles
  /\ LET target == sent[a].target IN
       IF MayChange(a, target)
         THEN \E role \in inPlay : held' = [held EXCEPT ![target] = {role}]
         ELSE UNCHANGED held
  /\ SentEnds(a)
  /\ UNCHANGED <<inPlay, session>>

GrantedInSQL(actor, target) ==
  /\ MayChange(actor, target)
  /\ \E role \in inPlay :
       \/ held' = [held EXCEPT ![target] = @ \cup {role}]
       \/ held[target] # {role} /\ held' = [held EXCEPT ![target] = @ \ {role}]
  /\ UNCHANGED <<inPlay, session, sent>>

(* A token no longer accepted, a service that fails or an answer lost. *)
SentLost(a) == sent[a] # NothingSent /\ SentEnds(a) /\ RolesKept /\ UNCHANGED session

-----------------------------------------------------------------------------
AccessInit ==
  /\ inPlay \in {{Technical, role} : role \in Roles \ {Technical}}
  /\ held \in [Accounts -> (SUBSET inPlay) \ {{}}]
  /\ \E a \in Accounts : Technical \in held[a]
  /\ session = [a \in Accounts |-> Closed]
  /\ sent = [a \in Accounts |-> NothingSent]

AccessNext ==
  \/ \E a \in Accounts :
       \/ SignIn(a) \/ SignOut(a) \/ SwitchRole(a) \/ AccessRefused(a)
       \/ Send(a) \/ Authorize(a) \/ Execute(a) \/ ChangeRoles(a) \/ SentLost(a)
  \/ \E actor, target \in Accounts : GrantedInSQL(actor, target)

AccessSpec == AccessInit /\ [][AccessNext]_accessVars

-----------------------------------------------------------------------------
(* Types: every variable stays in its domain. *)
AccessTypeOK ==
  /\ inPlay \subseteq Roles
  /\ held \in [Accounts -> SUBSET Roles]
  /\ session \in [Accounts -> [open : BOOLEAN, role : Roles \cup {None}, roles : SUBSET Roles]]
  /\ sent \in [Accounts -> [actions : SUBSET Actions, header : Roles \cup {None},
                             target : Accounts \cup {None}, acting : Roles \cup {None}]]

(* However administrators replace each other's roles, with requests that    *)
(* were authorised before the other's was carried out, an administrator     *)
(* remains and no account loses its last role (change_account_roles).       *)
AdministratorsRemain ==
  /\ \E a \in Accounts : Technical \in held[a]
  /\ \A a \in Accounts : held[a] # {}

(* The routes' table and the functions' own checks agree: a request that    *)
(* was authorised is turned away by the function only when its account lost *)
(* the role it acts as in between.                                          *)
RefusedOnlyWhenLost ==
  \A a \in Accounts : sent[a].acting \in held[a] =>
    \A action \in sent[a].actions : Admits(action, a)
=============================================================================
