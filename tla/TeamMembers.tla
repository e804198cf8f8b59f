----------------------------- MODULE TeamMembers ----------------------------
(***************************************************************************)
(* A leader's team (ftre-team): a team is an entry in the metadata of the  *)
(* leader's Session; a member is a Session of its own, a profile below the *)
(* leader's directory, a binding in the member's metadata and an entry in  *)
(* the team.  The tools run in threads, several at once, and take one      *)
(* step at a time on the event loop; the user deletes Sessions meanwhile.  *)
(* There is one leader and one team identifier, which may be used again.   *)
(* What a profile says and what a member answers are left out; a message   *)
(* is one that was accepted by the member's inbox.                         *)
(***************************************************************************)
EXTENDS Naturals, FiniteSets

CONSTANTS
    MaxMembers,     \* bound on the members ever added
    Calls           \* calls of tools and deletions under way at once

Members == 1 .. MaxMembers
Nobody == 0

VARIABLES
    leader,     \* whether the leader's Session exists
    team,       \* whether metadata['teams'] holds the team
    registered, \* its members
    created,    \* how many member Sessions were created
    sessions,   \* those that exist
    bound,      \* those with metadata['team_member']
    profiles,   \* <leader>/sub_agents/<member>/
    mail,       \* members with a task in their inbox
    calls       \* calls under way

vars == <<leader, team, registered, created, sessions, bound, profiles, mail, calls>>

Kinds == {"none", "create", "add", "say", "dissolve", "drop", "disband"}
Places == {"idle", "started", "profile", "bind", "register", "invoke", "deliver",
           "undo", "delete", "unbind", "forget"}
Call == [kind : Kinds, pc : Places, member : Members \cup {Nobody},
         todo : SUBSET Members, seen : BOOLEAN]
NoCall == [kind |-> "none", pc |-> "idle", member |-> Nobody, todo |-> {}, seen |-> FALSE]

TypeOK ==
    /\ leader \in BOOLEAN /\ team \in BOOLEAN
    /\ created \in 0 .. MaxMembers
    /\ registered \subseteq Members /\ sessions \subseteq Members
    /\ bound \subseteq Members /\ profiles \subseteq Members /\ mail \subseteq Members
    /\ calls \in [Calls -> Call]

Init ==
    /\ leader = TRUE /\ team = FALSE
    /\ registered = {} /\ created = 0 /\ sessions = {} /\ bound = {}
    /\ profiles = {} /\ mail = {}
    /\ calls = [c \in Calls |-> NoCall]

Rest == UNCHANGED <<leader, team, registered, created, sessions, bound, profiles, mail>>
At(c, kind, pc) == calls[c].kind = kind /\ calls[c].pc = pc
Goto(c, pc) == calls' = [calls EXCEPT ![c].pc = pc]
Return(c) == calls' = [calls EXCEPT ![c] = NoCall]

\* A tool is called; a subagent may not call one.
Begin(c, kind, m) ==
    /\ calls[c] = NoCall
    /\ calls' = [calls EXCEPT ![c].kind = kind, ![c].pc = "started", ![c].member = m]
    /\ Rest
Start(c) ==
    \/ \E kind \in {"create", "add", "dissolve"} : leader /\ Begin(c, kind, Nobody)
    \/ \E m \in Members : leader /\ m <= created /\ Begin(c, "say", m)
    \/ \E m \in sessions : Begin(c, "drop", m)
    \/ leader /\ Begin(c, "disband", Nobody)

-----------------------------------------------------------------------------
(* team_create, team_add_agent, team_say.                                  *)

Create(c) ==
    /\ At(c, "create", "started") /\ Return(c)
    /\ team' = (team \/ leader)
    /\ UNCHANGED <<leader, registered, created, sessions, bound, profiles, mail>>

\* The team is looked up, and a Session created.
AddSession(c) ==
    /\ At(c, "add", "started")
    /\ IF leader /\ team /\ created < MaxMembers
       THEN /\ created' = created + 1 /\ sessions' = sessions \cup {created + 1}
            /\ calls' = [calls EXCEPT ![c].member = created + 1, ![c].pc = "profile"]
       ELSE Return(c) /\ UNCHANGED <<created, sessions>>
    /\ UNCHANGED <<leader, team, registered, bound, profiles, mail>>

\* write_team_member_profile: refused values and errors of the disk undo it.
AddProfile(c) ==
    /\ At(c, "add", "profile")
    /\ \/ profiles' = profiles \cup {calls[c].member} /\ Goto(c, "bind")
       \/ UNCHANGED profiles /\ Goto(c, "undo")
    /\ UNCHANGED <<leader, team, registered, created, sessions, bound, mail>>

\* update_session_metadata raises when the Session is gone.
AddBinding(c) ==
    /\ At(c, "add", "bind")
    /\ IF calls[c].member \in sessions
       THEN bound' = bound \cup {calls[c].member} /\ Goto(c, "register")
       ELSE UNCHANGED bound /\ Goto(c, "undo")
    /\ UNCHANGED <<leader, team, registered, created, sessions, profiles, mail>>

\* Mutation: the team is not looked up again when the member is entered.
AddUnchecked(c) ==
    /\ At(c, "add", "register")
    /\ registered' = IF team THEN registered \cup {calls[c].member} ELSE registered
    /\ Goto(c, "invoke")
    /\ UNCHANGED <<leader, team, created, sessions, bound, profiles, mail>>
\* _register, under the lock of the leader's Session.
AddMember(c) ==
    /\ At(c, "add", "register")
    /\ IF leader /\ team
       THEN registered' = registered \cup {calls[c].member} /\ Goto(c, "invoke")
       ELSE UNCHANGED registered /\ Goto(c, "undo")
    /\ UNCHANGED <<leader, team, created, sessions, bound, profiles, mail>>

\* The rollback: the profile, then the Session, whose binding is read again.
Undo(c) ==
    /\ At(c, "add", "undo")
    /\ profiles' = profiles \ {calls[c].member}
    /\ calls' = [calls EXCEPT ![c].kind = "drop", ![c].pc = "started"]
    /\ UNCHANGED <<leader, team, registered, created, sessions, bound, mail>>

\* An inbox admits for Sessions that exist.
Accepts(m) == mail' = IF m \in sessions THEN mail \cup {m} ELSE mail

\* The first task, if there is one.
Invoke(c) ==
    /\ At(c, "add", "invoke") /\ Return(c)
    /\ Accepts(calls[c].member) \/ UNCHANGED mail
    /\ UNCHANGED <<leader, team, registered, created, sessions, bound, profiles>>

\* team_say: a member of the team whose Session exists; then it is submitted.
Say(c) ==
    /\ At(c, "say", "started")
    /\ IF team /\ calls[c].member \in registered \cap sessions
       THEN Goto(c, "deliver") ELSE Return(c)
    /\ Rest
Deliver(c) ==
    /\ At(c, "say", "deliver") /\ Return(c)
    /\ Accepts(calls[c].member)
    /\ UNCHANGED <<leader, team, registered, created, sessions, bound, profiles>>

-----------------------------------------------------------------------------
(* Deletion.                                                               *)

\* team_delete takes the team out first, then deletes its members' Sessions.
Dissolve(c) ==
    /\ At(c, "dissolve", "started")
    /\ IF leader /\ team
       THEN /\ team' = FALSE /\ registered' = {}
            /\ calls' = [calls EXCEPT ![c].todo = registered, ![c].pc = "delete"]
       ELSE Return(c) /\ UNCHANGED <<team, registered>>
    /\ UNCHANGED <<leader, created, sessions, bound, profiles, mail>>

\* The next member: its Session (delete_session), its mail, its profile.
DissolveNext(c) ==
    /\ At(c, "dissolve", "delete")
    /\ \/ /\ calls[c].todo = {} /\ Return(c) /\ UNCHANGED <<sessions, bound, profiles, mail>>
       \/ \E m \in calls[c].todo :
             /\ calls' = [calls EXCEPT ![c].todo = @ \ {m}]
             /\ sessions' = sessions \ {m} /\ bound' = bound \ {m}
             /\ mail' = mail \ {m} /\ profiles' = profiles \ {m}
    /\ UNCHANGED <<leader, team, registered, created>>

\* SessionService.delete_session of a member: the metadata is read ...
Drop(c) ==
    /\ At(c, "drop", "started")
    /\ calls' = [calls EXCEPT ![c].seen = calls[c].member \in bound, ![c].pc = "delete"]
    /\ Rest
\* ... the Session and its mail are removed ...
DropSession(c) ==
    LET m == calls[c].member IN
    /\ At(c, "drop", "delete")
    /\ sessions' = sessions \ {m} /\ bound' = bound \ {m} /\ mail' = mail \ {m}
    /\ IF calls[c].seen THEN Goto(c, "unbind") ELSE Return(c)
    /\ UNCHANGED <<leader, team, registered, created, profiles>>
\* ... _unbind_member_from_leader and delete_member_profile follow the binding.
DropMember(c) ==
    LET m == calls[c].member IN
    /\ At(c, "drop", "unbind") /\ Return(c)
    /\ registered' = registered \ {m} /\ profiles' = profiles \ {m}
    /\ UNCHANGED <<leader, team, created, sessions, bound, mail>>

\* Deleting the leader: the members known then, and all profiles.
Disband(c) ==
    /\ At(c, "disband", "started")
    /\ calls' = [calls EXCEPT ![c].todo = registered, ![c].pc = "delete"]
    /\ Rest
DisbandNext(c) ==
    /\ At(c, "disband", "delete")
    /\ \/ /\ calls[c].todo = {} /\ Goto(c, "forget")
          /\ profiles' = {} /\ UNCHANGED <<sessions, bound, mail>>
       \/ \E m \in calls[c].todo :
             /\ calls' = [calls EXCEPT ![c].todo = @ \ {m}]
             /\ sessions' = sessions \ {m} /\ bound' = bound \ {m} /\ mail' = mail \ {m}
             /\ UNCHANGED profiles
    /\ UNCHANGED <<leader, team, registered, created>>
DisbandLeader(c) ==
    /\ At(c, "disband", "forget") /\ Return(c)
    /\ leader' = FALSE /\ team' = FALSE /\ registered' = {}
    /\ UNCHANGED <<created, sessions, bound, profiles, mail>>

Next ==
    \E c \in Calls :
        \/ Start(c) \/ Create(c) \/ AddSession(c) \/ AddProfile(c) \/ AddBinding(c)
        \/ AddMember(c) \/ Undo(c) \/ Invoke(c) \/ Say(c) \/ Deliver(c)
        \/ Dissolve(c) \/ DissolveNext(c) \/ Drop(c) \/ DropSession(c) \/ DropMember(c)
        \/ Disband(c) \/ DisbandNext(c) \/ DisbandLeader(c)
Spec == Init /\ [][Next]_vars

-----------------------------------------------------------------------------
(* Properties.                                                             *)

Settled == \A c \in Calls : calls[c] = NoCall

\* When nothing is under way, every living member can be reached through the
\* leader's team and has its profile and binding: whatever was added, dissolved
\* and deleted at the same time, no member runs on that no tool can delete.
NoMemberIsLeaked ==
    Settled /\ leader => /\ sessions \subseteq registered
                         /\ sessions \subseteq bound \cap profiles
=============================================================================
