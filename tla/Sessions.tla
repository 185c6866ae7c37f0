------------------------------ MODULE Sessions ------------------------------
(***************************************************************************)
(* Roles and sessions (packages/amadeus/memory.py, identity.py): the title  *)
(* a session has, and the SOUL.md of a role, which is written when somebody *)
(* first needs it.  One session and its role; every thread serves a request *)
(* or runs a turn.  A SELECT and the writes that follow from it are steps   *)
(* of their own: sqlite3 begins a transaction with the first write.  The    *)
(* texts of a role but its name and its soul are left out, and so are the   *)
(* messages but for how many the user has sent.                             *)
(***************************************************************************)
EXTENDS Naturals, FiniteSets

CONSTANTS
  Threads,
  Names,     \* of the role
  Given,     \* titles users give; "auto" stands for those that look automatic
  Souls,     \* texts users write to SOUL.md
  MaxCalls,  \* bound: calls of all threads
  None

SessionsAssumption ==
  /\ "message" \notin Given /\ None \notin Given \union Souls \union Names
  /\ MaxCalls \in Nat

VARIABLES
  role,     \* its name, or None as long as it is not created
  soul,     \* SOUL.md: missing, the default made for a name, or a user's text
  session,  \* its row: whether it is there, its title, and whether it is archived
  sent,     \* messages of the user
  doing,    \* the call of each thread
  begun,    \* calls begun
  wanted,   \* history: the title and the soul users wrote last
  met       \* history: which of the two met a thread that had just read the old one

vars == <<role, soul, session, sent, doing, begun, wanted, met>>

Idle == [at |-> "idle"]
Missing == <<"missing", None>>
Default(name) == <<"default", name>>
Written(text) == <<"written", text>>

TypeOK ==
  /\ role \in Names \union {None}
  /\ soul \in {Missing} \union {Written(s) : s \in Souls} \union {Default(n) : n \in Names}
  /\ session.title \in Given \union {"auto", "message"}
  /\ \A p \in Threads :
       doing[p].at \in {"idle", "insert", "count", "write", "soul", "default", "put"}
  /\ begun \in 0 .. MaxCalls

Init ==
  /\ role \in Names \union {None} /\ soul = Missing
  /\ session = [there |-> FALSE, title |-> "auto", archived |-> FALSE]
  /\ sent = 0
  /\ doing = [p \in Threads |-> Idle] /\ begun = 0
  /\ wanted = [title |-> None, soul |-> None] /\ met = {}

Begin(p, d) ==
  /\ doing[p] = Idle /\ begun < MaxCalls
  /\ doing' = [doing EXCEPT ![p] = d] /\ begun' = begun + 1

Goes(p, d) == doing' = [doing EXCEPT ![p] = d] /\ UNCHANGED begun

----------------------------------------------------------------------------
(* save, of a message of the user; ensure_session comes first.             *)

Save(p) ==
  /\ Begin(p, [at |-> IF session.there THEN "count" ELSE "insert"])
  /\ UNCHANGED <<role, soul, session, sent, wanted, met>>

\* INSERT OR IGNORE: of two threads that found no session one makes it.
Insert(p) ==
  /\ doing[p].at = "insert" /\ Goes(p, [at |-> "count"])
  /\ session' = [session EXCEPT !.there = TRUE]
  /\ UNCHANGED <<role, soul, sent, wanted, met>>

Count(p) ==
  /\ doing[p].at = "count"
  /\ Goes(p, [at |-> "write", title |-> session.title, sent |-> sent])
  /\ UNCHANGED <<role, soul, session, sent, wanted, met>>

\* Mutant of Titles: every first message names the session.
TitlesFirst(d) == d.sent = 0

\* is_auto_session_title: the first message names a session without a name.
Titles(d) == d.sent = 0 /\ d.title = "auto"

Write(p) ==
  /\ doing[p].at = "write" /\ Goes(p, Idle)
  /\ sent' = sent + 1
  /\ session' = IF Titles(doing[p]) THEN [session EXCEPT !.title = "message"] ELSE session
  /\ UNCHANGED <<role, soul, wanted, met>>

----------------------------------------------------------------------------
(* create_session, update_session, archive_session, reset: one statement each.             *)

Rename(p, title) ==
  /\ session.there
  /\ doing[p] = Idle /\ begun < MaxCalls /\ begun' = begun + 1
  /\ session' = [session EXCEPT !.title = title]
  /\ wanted' = [wanted EXCEPT !.title = IF title = "auto" THEN None ELSE title]
  /\ met' = (met \ {"title"}) \union
              {"title" : q \in {q \in Threads : doing[q].at = "write" /\ Titles(doing[q])}}
  /\ UNCHANGED <<role, soul, sent, doing>>

\* create_session, with the title given or one made from the time.
Create(p, title) ==
  /\ ~session.there /\ role # None /\ \A q \in Threads : doing[q].at # "insert"
  /\ doing[p] = Idle /\ begun < MaxCalls /\ begun' = begun + 1
  /\ session' = [session EXCEPT !.there = TRUE, !.title = title]
  /\ wanted' = [wanted EXCEPT !.title = IF title = "auto" THEN None ELSE title]
  /\ UNCHANGED <<role, soul, sent, doing, met>>

\* An archived session goes on: it is not listed any more, but it can be written to.
Archive(p) ==
  /\ session.there /\ ~session.archived
  /\ doing[p] = Idle /\ begun < MaxCalls /\ begun' = begun + 1
  /\ session' = [session EXCEPT !.archived = TRUE]
  /\ UNCHANGED <<role, soul, sent, doing, wanted, met>>

Reset(p) ==
  /\ sent > 0
  /\ doing[p] = Idle /\ begun < MaxCalls /\ begun' = begun + 1
  /\ sent' = 0
  /\ UNCHANGED <<role, soul, session, doing, wanted, met>>

----------------------------------------------------------------------------
(* The role and its soul.                                                  *)

CreateRole(p, name) ==
  /\ role = None /\ role' = name
  /\ Begin(p, [at |-> "soul", name |-> name, text |-> None])
  /\ UNCHANGED <<soul, session, sent, wanted, met>>

UpdateRole(p, name) ==
  /\ role # None /\ name # role
  /\ doing[p] = Idle /\ begun < MaxCalls /\ begun' = begun + 1
  /\ role' = name
  /\ UNCHANGED <<soul, session, sent, doing, wanted, met>>

\* role_identity, for the page of the role and the prompt of every turn.
ReadIdentity(p) ==
  /\ role # None
  /\ Begin(p, [at |-> "soul", name |-> role, text |-> None])
  /\ UNCHANGED <<role, soul, session, sent, wanted, met>>

\* update_role_identity: the name first, and the text when it is not blank.
PutIdentity(p, name, text) ==
  /\ role # None
  /\ role' = IF name = None THEN role ELSE name
  /\ Begin(p, [at |-> "soul", name |-> role', text |-> text])
  /\ UNCHANGED <<soul, session, sent, wanted, met>>

\* ensure_role_soul: the file is there, or it is about to be written.
Ensure(p) ==
  /\ doing[p].at = "soul"
  /\ Goes(p, IF soul = Missing THEN [doing[p] EXCEPT !.at = "default"]
             ELSE IF doing[p].text # None THEN [doing[p] EXCEPT !.at = "put"] ELSE Idle)
  /\ UNCHANGED <<role, soul, session, sent, wanted, met>>

WriteDefault(p) ==
  /\ doing[p].at = "default"
  /\ soul' = Default(doing[p].name)
  /\ Goes(p, IF doing[p].text # None THEN [doing[p] EXCEPT !.at = "put"] ELSE Idle)
  /\ UNCHANGED <<role, session, sent, wanted, met>>

\* atomic_write_text.
Put(p) ==
  /\ doing[p].at = "put" /\ Goes(p, Idle)
  /\ soul' = Written(doing[p].text)
  /\ wanted' = [wanted EXCEPT !.soul = doing[p].text]
  /\ met' = (met \ {"soul"}) \union {"soul" : q \in {q \in Threads : doing[q].at = "default"}}
  /\ UNCHANGED <<role, session, sent>>

Next ==
  \E p \in Threads :
    \/ Save(p) \/ Insert(p) \/ Count(p) \/ Write(p)
    \/ \E title \in Given : Create(p, title) \/ Rename(p, title)
    \/ Archive(p) \/ Reset(p)
    \/ \E name \in Names : CreateRole(p, name) \/ UpdateRole(p, name)
    \/ ReadIdentity(p)
    \/ \E name \in Names \union {None}, text \in Souls \union {None} : PutIdentity(p, name, text)
    \/ Ensure(p) \/ WriteDefault(p) \/ Put(p)

Spec == Init /\ [][Next]_vars

----------------------------------------------------------------------------
(***************************************************************************)
(* What a user wrote stays: the title of a session whatever is said in it   *)
(* later, and the soul of its role whoever needs it later, unless a thread  *)
(* that was to write the first title, or the default soul, had read what    *)
(* was there before the user wrote.                                        *)
(***************************************************************************)
UserTextsStay ==
  /\ wanted.title # None /\ "title" \notin met => session.title = wanted.title
  /\ wanted.soul # None /\ "soul" \notin met => soul = Written(wanted.soul)
=============================================================================
