----------------------------- MODULE TeamState -----------------------------
(***************************************************************************)
(* The scoreboard teams that B's client is told of: native/team_state.h,   *)
(* native/server/teams.cpp, and the team packets of a snapshot.            *)
(*                                                                         *)
(* B shows A's team on its own name, whatever the server says of that      *)
(* name.  A vanilla client disconnects when it is told to remove a player  *)
(* from a team it does not believe the player to be in, so the proxy keeps *)
(* the scoreboard it has sent to B and suppresses such removals.           *)
(*                                                                         *)
(* A board is a set of teams and the team of each player.  A packet lists  *)
(* each player any number of times; the order of a list means nothing.     *)
(* Packets reach B in the order they are prepared, so the sending and B's  *)
(* handling of one are one step.                                           *)
(***************************************************************************)
EXTENDS Integers

CONSTANTS
  Players,    \* names
  Teams,
  NoTeam,     \* not on a team
  NoName,     \* a name the proxy could not get: the empty string
  MaxListed   \* bound: times a packet lists one player

ASSUME NoTeamIsNone == NoTeam \notin Teams
ASSUME NoNameIsNone == NoName \notin Players
ASSUME MaxListedIsPositive == MaxListed \in Nat \ {0}

VARIABLES
  server,     \* the board of A's server, which A's client follows
  told,       \* ServerState::teams: the board sent to B
  shown,      \* the board of B's client
  a, b,       \* the names of A and of the present B
  present,    \* B is receiving packets
  snapshot,   \* the teams of the snapshot still to be written to B
  missed,     \* history: B's stream is not the whole of the server's
  rejected    \* history: B's client was sent a packet it disconnects for

boards == <<server, told, shown>>
session == <<a, b, present, snapshot>>
vars == <<boards, session, missed, rejected>>

\* ClientboundSetPlayerTeamPacket.method; 5 stands for any unknown one.
Create == 0
Delete == 1
Change == 2
Join == 3
Leave == 4
Methods == 0..5

Members == [Players -> Teams \cup {NoTeam}]
Boards == [teams : SUBSET Teams, members : Members]
Lists == [Players -> 0..MaxListed]

EmptyBoard == [teams |-> {}, members |-> [p \in Players |-> NoTeam]]

TypeOK ==
  /\ {server, told, shown} \subseteq Boards
  /\ a \in Players \cup {NoName} /\ b \in Players \cup {NoName}
  /\ {present, missed, rejected} \subseteq BOOLEAN
  /\ snapshot \subseteq Teams

Init ==
  /\ server = EmptyBoard /\ told = EmptyBoard /\ shown = EmptyBoard
  /\ a = NoName /\ b = NoName
  /\ present = FALSE /\ snapshot = {}
  /\ missed = FALSE /\ rejected = FALSE

-----------------------------------------------------------------------------
\* A vanilla client.
Named(list) == {p \in Players : list[p] > 0}
OnTeam(board, team) == {p \in Players : board.members[p] = team}
Moved(board, S, team) ==
  [board EXCEPT !.members = [p \in Players |-> IF p \in S THEN team ELSE board.members[p]]]

\* It does not know the team, or is to take a player off a team the player is
\* not on (any more).
Rejects(board, team, method, list) ==
  \/ method # Create /\ team \notin board.teams
  \/ method = Leave /\ \E p \in Named(list) : list[p] > 1 \/ board.members[p] # team

Handled(board, team, method, list) ==
  CASE method = Create -> [Moved(board, Named(list), team) EXCEPT !.teams = @ \cup {team}]
    [] method = Delete -> [Moved(board, OnTeam(board, team), NoTeam) EXCEPT !.teams = @ \ {team}]
    [] method = Join   -> Moved(board, Named(list), team)
    [] method = Leave  -> Moved(board, Named(list), NoTeam)
    [] OTHER           -> board

-----------------------------------------------------------------------------
\* TeamState::apply.

\* mutant: the server's own entry for B's name is kept.
CandidatesWithRemoteB(list, nameA, nameB) ==
  IF nameA # NoName /\ nameB # NoName /\ nameA # nameB /\ list[nameA] > 0
  THEN [list EXCEPT ![nameB] = 1] ELSE list

\* B's name follows A's, even if the remote roster contains B's name.
Candidates(list, nameA, nameB) ==
  IF nameA # NoName /\ nameB # NoName /\ nameA # nameB
  THEN [list EXCEPT ![nameB] = IF list[nameA] > 0 THEN 1 ELSE 0]
  ELSE list

Accepted(board, team, method) ==
  method \in 0..4 /\ (method # Create => team \in board.teams)

\* mutant: a removal is passed on as it is.
AffectedAsListed(board, team, method, candidates) == Named(candidates)

\* The players of the outgoing packet; each is listed once.
Affected(board, team, method, candidates) ==
  {p \in Named(candidates) : method = Leave => board.members[p] = team}

Sends(board, team, method, players) ==
  Accepted(board, team, method) /\ (method \in {Join, Leave} => players # {})

\* mutant: only new members are recorded.
AppliedToNewMembers(board, team, method, players) ==
  LET new == {p \in players : board.members[p] = NoTeam}
  IN CASE method = Create -> [Moved(board, new, team) EXCEPT !.teams = @ \cup {team}]
       [] method = Delete -> [Moved(board, OnTeam(board, team), NoTeam) EXCEPT !.teams = @ \ {team}]
       [] method = Join   -> Moved(board, new, team)
       [] method = Leave  -> Moved(board, players, NoTeam)
       [] OTHER           -> board

Applied(board, team, method, players) ==
  CASE method = Create -> [Moved(board, players, team) EXCEPT !.teams = @ \cup {team}]
    [] method = Delete -> [Moved(board, OnTeam(board, team), NoTeam) EXCEPT !.teams = @ \ {team}]
    [] method = Join   -> Moved(board, players, team)
    [] method = Leave  -> Moved(board, players, NoTeam)
    [] OTHER           -> board

ListedOnce(players) == [p \in Players |-> IF p \in players THEN 1 ELSE 0]

\* prepareTeamPacket and the write that follows: B's client handles what is sent.
Forward(team, method, list) ==
  LET candidates == Candidates(list, a, b)
      players == Affected(told, team, method, candidates)
      outgoing == ListedOnce(players)
  IN IF Sends(told, team, method, players)
     THEN /\ told' = Applied(told, team, method, players)
          /\ shown' = Handled(shown, team, method, outgoing)
          /\ rejected' = (rejected \/ Rejects(shown, team, method, outgoing))
     ELSE UNCHANGED <<told, shown, rejected>>

-----------------------------------------------------------------------------
\* A's name is looked up until it is found.
ReadsNames ==
  /\ b' \in Players \cup {NoName}
  /\ a' \in IF a = NoName THEN Players \cup {NoName} ELSE {a}

\* A B logs in: a new client has an empty board.  With A in a game, the snapshot
\* follows.
BLogsIn(mid) ==
  /\ ~present
  /\ present' = TRUE
  /\ told' = EmptyBoard /\ shown' = EmptyBoard
  /\ ReadsNames
  /\ snapshot' = IF mid THEN server.teams ELSE {}
  /\ missed' = (~mid /\ server # EmptyBoard)
  /\ UNCHANGED <<server, rejected>>

\* The snapshot holds a packet for each team of A's scoreboard.  Packets that
\* A's server sends meanwhile are buffered until the snapshot is written.
SnapshotTeam(team) ==
  /\ present /\ team \in snapshot
  /\ snapshot' = snapshot \ {team}
  /\ Forward(team, Create, ListedOnce(OnTeam(server, team)))
  /\ UNCHANGED <<server, a, b, present, missed>>

\* A's server sends a team packet.  B gets it, or misses it: one that A's own
\* client would reject, too, says nothing about the teams.
ServerSends(team, method, list) ==
  LET valid == ~Rejects(server, team, method, list)
  IN /\ snapshot = {}
     /\ server' = IF valid THEN Handled(server, team, method, list) ELSE server
     /\ \/ /\ present
           /\ Forward(team, method, list)
           /\ missed' = (missed \/ ~valid)
        \/ missed' = present /\ UNCHANGED <<told, shown, rejected>>
     /\ UNCHANGED session

\* A's server sends a login packet, at A's next join or when a network of
\* servers moves A: every board begins anew.
ServerLogin ==
  /\ snapshot = {}
  /\ server' = EmptyBoard
  /\ IF present THEN told' = EmptyBoard /\ shown' = EmptyBoard
     ELSE UNCHANGED <<told, shown>>
  /\ missed' = FALSE
  /\ UNCHANGED <<session, rejected>>

\* B leaves, or is closed because a packet could not be prepared.
BLeaves ==
  /\ present
  /\ present' = FALSE /\ snapshot' = {}
  /\ UNCHANGED <<boards, a, b, missed, rejected>>

Next ==
  \/ \E mid \in BOOLEAN : BLogsIn(mid)
  \/ \E team \in Teams : SnapshotTeam(team)
  \/ \E team \in Teams, method \in Methods, list \in Lists : ServerSends(team, method, list)
  \/ ServerLogin
  \/ BLeaves

Spec == Init /\ [][Next]_vars

-----------------------------------------------------------------------------
\* A player is recorded only on a team that exists.
TeamsExist ==
  \A board \in {server, told, shown} :
    \A p \in Players : board.members[p] \in board.teams \cup {NoTeam}

\* B's client is never sent a packet for a team it does not know, nor a removal
\* it disconnects for: whatever B missed, whatever the server sends, however
\* often a player is listed (team_state.h:8, team_state_test.cpp:23-32).
BNeverRejects == ~rejected

\* B stands on A's team in its own display, not on one the server may have given
\* to B's name (team_state.h:34-38).
BFollowsA ==
  present /\ a # NoName /\ b # NoName => shown.members[b] = shown.members[a]

\* A B that missed nothing shows every other player where the server has put
\* them: the suppression loses nothing (team_state.h:40-55).
OthersMirrored ==
  present /\ ~missed /\ snapshot = {} =>
    \A p \in Players : (p # b \/ a \in {NoName, b}) => shown.members[p] = server.members[p]
=============================================================================
