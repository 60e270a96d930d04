-------------------------- MODULE TeamStateProofs --------------------------
(***************************************************************************)
(* What TeamState promises, for any players, teams and lists.              *)
(*                                                                         *)
(* The invariant behind all of it is that the board the proxy keeps is the *)
(* board of B's client while B is there (BSide).  It is not assumed of the *)
(* server, and does not depend on what B missed: a removal is judged by    *)
(* what B was told, never by A's own scoreboard.  If B missed nothing, the *)
(* other players stand on both boards alike, but for the teams whose       *)
(* snapshot packet is still to come (Mirrored).                            *)
(***************************************************************************)
EXTENDS TeamState, TLAPS

-----------------------------------------------------------------------------
\* A packet that lists a set once names exactly that set.
LEMMA NamedOnce ==
  ASSUME NEW S \in SUBSET Players
  PROVE  /\ Named(ListedOnce(S)) = S
         /\ ListedOnce(S) \in Lists
         /\ \A p \in Players : ListedOnce(S)[p] <= 1
<1>1. \A p \in Players : ListedOnce(S)[p] = IF p \in S THEN 1 ELSE 0
  BY DEF ListedOnce
<1>2. Named(ListedOnce(S)) = S
  BY <1>1 DEF Named
<1>3. 0 \in 0..MaxListed /\ 1 \in 0..MaxListed
  BY MaxListedIsPositive
<1>4. ListedOnce(S) \in Lists
  BY <1>3 DEF ListedOnce, Lists
<1> QED
  BY <1>1, <1>2, <1>4

\* The players of an outgoing packet are players.
LEMMA AffectedIsNamed ==
  ASSUME NEW board, NEW team, NEW method, NEW candidates
  PROVE  Affected(board, team, method, candidates) \in SUBSET Players
BY DEF Affected, Named

\* Moving players leaves the teams and the other players as they are.
LEMMA MovedBoard ==
  ASSUME NEW board \in Boards, NEW S, NEW team \in Teams \cup {NoTeam}
  PROVE  /\ Moved(board, S, team) \in Boards
         /\ Moved(board, S, team).teams = board.teams
         /\ \A p \in Players :
              Moved(board, S, team).members[p] = IF p \in S THEN team ELSE board.members[p]
BY DEF Moved, Boards, Members

\* The board the proxy keeps and the board of a vanilla client change alike.
LEMMA AppliedIsHandled ==
  ASSUME NEW board \in Boards, NEW team \in Teams, NEW method \in Methods,
         NEW players \in SUBSET Players
  PROVE  Applied(board, team, method, players) = Handled(board, team, method, ListedOnce(players))
BY NamedOnce DEF Applied, Handled

\* What handling a packet on a board amounts to, case by case.
After(board, team, method, list, after) ==
  /\ after \in Boards
  /\ after.teams = CASE method = Create -> board.teams \cup {team}
                     [] method = Delete -> board.teams \ {team}
                     [] OTHER -> board.teams
  /\ \A p \in Players :
       after.members[p] =
         IF method \in {Create, Join} /\ p \in Named(list) THEN team
         ELSE IF method = Leave /\ p \in Named(list) THEN NoTeam
         ELSE IF method = Delete /\ board.members[p] = team THEN NoTeam
         ELSE board.members[p]

\* The definition of Handled, in one formula.
LEMMA HandledBoard ==
  ASSUME NEW board \in Boards, NEW team \in Teams, NEW method \in Methods, NEW list \in Lists,
         NEW after, after = Handled(board, team, method, list)
  PROVE  After(board, team, method, list, after)
<1> USE DEF Create, Delete, Change, Join, Leave, After
<1>1. CASE method \in {Create, Join, Leave}
  <2>1. PICK t \in Teams \cup {NoTeam} : t = IF method = Leave THEN NoTeam ELSE team
    OBVIOUS
  <2> DEFINE moved == Moved(board, Named(list), t)
  <2>2. /\ moved \in Boards /\ moved.teams = board.teams
        /\ \A p \in Players : moved.members[p] = IF p \in Named(list) THEN t ELSE board.members[p]
    BY MovedBoard
  <2>3. after = IF method = Create THEN [moved EXCEPT !.teams = @ \cup {team}] ELSE moved
    BY <1>1, <2>1 DEF Handled
  <2> HIDE DEF moved
  <2>4. /\ after \in Boards /\ after.members = moved.members
        /\ after.teams = IF method = Create THEN board.teams \cup {team} ELSE board.teams
    BY <2>2, <2>3 DEF Boards
  <2> QED
    BY <1>1, <2>1, <2>2, <2>4
<1>2. CASE method = Delete
  <2> DEFINE moved == Moved(board, OnTeam(board, team), NoTeam)
  <2>1. /\ moved \in Boards /\ moved.teams = board.teams
        /\ \A p \in Players :
             moved.members[p] = IF p \in OnTeam(board, team) THEN NoTeam ELSE board.members[p]
    BY MovedBoard
  <2>2. after = [moved EXCEPT !.teams = @ \ {team}]
    BY <1>2 DEF Handled
  <2> HIDE DEF moved
  <2>3. after \in Boards /\ after.members = moved.members /\ after.teams = board.teams \ {team}
    BY <2>1, <2>2 DEF Boards
  <2> QED
    BY <1>2, <2>1, <2>3 DEF OnTeam
<1>3. CASE method \notin {Create, Delete, Join, Leave}
  <2>1. after = board
    BY <1>3 DEF Handled
  <2> QED
    BY <1>3, <2>1
<1> QED
  BY <1>1, <1>2, <1>3

\* Teams exist on it as long as its packets are for teams that exist.
LEMMA HandledTeamsExist ==
  ASSUME NEW board \in Boards, NEW team \in Teams, NEW method \in Methods, NEW list \in Lists,
         method # Create => team \in board.teams,
         \A p \in Players : board.members[p] \in board.teams \cup {NoTeam},
         NEW after, after = Handled(board, team, method, list)
  PROVE  \A p \in Players : after.members[p] \in after.teams \cup {NoTeam}
<1>1. After(board, team, method, list, after)
  BY HandledBoard
<1>2. CASE method = Delete
  <2>1. method \notin {Create, Join} /\ method # Leave
    BY <1>2 DEF Create, Delete, Join, Leave
  <2>2. /\ after.teams = board.teams \ {team}
        /\ \A p \in Players :
             after.members[p] = IF board.members[p] = team THEN NoTeam ELSE board.members[p]
    BY <1>1, <1>2, <2>1 DEF After, Create, Delete
  <2>3. ASSUME NEW p \in Players
        PROVE  after.members[p] \in after.teams \cup {NoTeam}
    <3>1. CASE board.members[p] = team
      BY <2>2, <3>1
    <3>2. CASE board.members[p] # team
      <4>1. after.members[p] = board.members[p]
        BY <2>2, <3>2
      <4>2. board.members[p] \in board.teams \cup {NoTeam}
        OBVIOUS
      <4> QED
        BY <2>2, <3>2, <4>1, <4>2
    <3> QED
      BY <3>1, <3>2
  <2> QED
    BY <2>3
<1> USE DEF Create, Delete, Change, Join, Leave
<1>3. CASE method # Delete
  <2>1. board.teams \subseteq after.teams
    BY <1>1, <1>3 DEF After
  <2>2. team \in after.teams
    BY <1>1, <1>3 DEF After
  <2>3. \A p \in Players : after.members[p] \in {team, NoTeam, board.members[p]}
    BY <1>1, <1>3 DEF After
  <2>4. \A p \in Players : after.members[p] \in after.teams \cup {NoTeam}
    BY <2>1, <2>2, <2>3
  <2> QED
    BY <2>4
<1> QED
  BY <1>2, <1>3

-----------------------------------------------------------------------------
\* A packet that is sent is one B's client accepts.
LEMMA SentIsAccepted ==
  ASSUME NEW board \in Boards, NEW team \in Teams, NEW method \in Methods, NEW candidates,
         Sends(board, team, method, Affected(board, team, method, candidates))
  PROVE  ~Rejects(board, team, method, ListedOnce(Affected(board, team, method, candidates)))
<1> DEFINE S == Affected(board, team, method, candidates)
<1>1. S \in SUBSET Players
  BY AffectedIsNamed
<1>2. method # Create => team \in board.teams
  BY DEF Sends, Accepted
<1>3. method = Leave => \A p \in S : board.members[p] = team
  BY DEF Affected
<1>4. /\ Named(ListedOnce(S)) = S /\ ListedOnce(S) \in Lists
      /\ \A p \in Players : ListedOnce(S)[p] <= 1
  BY <1>1, NamedOnce
<1>5. \A p \in S : ~(ListedOnce(S)[p] > 1)
  <2>1. \A p \in S : ListedOnce(S)[p] = 1
    BY <1>1 DEF ListedOnce
  <2> QED
    BY <2>1
<1> HIDE DEF S
<1>6. ~Rejects(board, team, method, ListedOnce(S))
  BY <1>2, <1>3, <1>4, <1>5 DEF Rejects
<1> QED
  BY <1>6 DEF S

\* B is affected exactly when A is, if they were on the same team before.
LEMMA BAffectedWithA ==
  ASSUME NEW board \in Boards, NEW team \in Teams, NEW method \in Methods, NEW list \in Lists,
         NEW x \in Players, NEW y \in Players,
         board.members[x] = board.members[y]
  PROVE  LET S == Affected(board, team, method, Candidates(list, x, y))
         IN x \in S <=> y \in S
<1> DEFINE candidates == Candidates(list, x, y)
<1>1. CASE x = y
  BY <1>1
<1>2. CASE x # y
  <2>1. candidates = [list EXCEPT ![y] = IF list[x] > 0 THEN 1 ELSE 0]
    BY <1>2, NoNameIsNone DEF Candidates
  <2>2. candidates[x] = list[x] /\ candidates[y] = IF list[x] > 0 THEN 1 ELSE 0
    BY <1>2, <2>1 DEF Lists
  <2>3. x \in Named(candidates) <=> y \in Named(candidates)
    BY <2>2 DEF Named
  <2> QED
    BY <2>3 DEF Affected
<1> QED
  BY <1>1, <1>2

-----------------------------------------------------------------------------
\* A board that records its players on teams that exist.
Sound(board) == board \in Boards /\ \A p \in Players : board.members[p] \in board.teams \cup {NoTeam}

\* A new client's board.
LEMMA EmptyIsSound == Sound(EmptyBoard)
BY DEF Sound, EmptyBoard, Boards, Members

\* A vanilla client keeps its board sound.
LEMMA HandledIsSound ==
  ASSUME NEW board, Sound(board), NEW team \in Teams, NEW method \in Methods, NEW list \in Lists,
         method # Create => team \in board.teams
  PROVE  Sound(Handled(board, team, method, list))
<1> DEFINE after == Handled(board, team, method, list)
<1>1. board \in Boards /\ \A p \in Players : board.members[p] \in board.teams \cup {NoTeam}
  BY DEF Sound
<1>2. after \in Boards
  BY <1>1, HandledBoard DEF After
<1>3. \A p \in Players : after.members[p] \in after.teams \cup {NoTeam}
  BY <1>1, HandledTeamsExist
<1> QED
  BY <1>2, <1>3 DEF Sound

\* The part of the invariant a packet to B can disturb.
BSide == /\ Sound(told) /\ told = shown /\ rejected = FALSE
         /\ a # NoName /\ b # NoName => shown.members[b] = shown.members[a]

\* Whatever packet is prepared for B, accepted or not: the two boards stay equal,
\* B's client accepts it, and B stays with A.
LEMMA ForwardKeepsBSide ==
  ASSUME NEW team \in Teams, NEW method \in Methods, NEW list \in Lists,
         a \in Players \cup {NoName}, b \in Players \cup {NoName}, BSide,
         Forward(team, method, list), UNCHANGED <<a, b>>
  PROVE  BSide'
<1> DEFINE candidates == Candidates(list, a, b)
           S == Affected(told, team, method, candidates)
           outgoing == ListedOnce(S)
<1>1. told \in Boards /\ told = shown
  BY DEF BSide, Sound
<1>2. S \in SUBSET Players /\ outgoing \in Lists /\ Named(outgoing) = S
  BY AffectedIsNamed, NamedOnce
<1>3. CASE ~Sends(told, team, method, S)
  BY <1>3 DEF Forward, BSide
<1>4. CASE Sends(told, team, method, S)
  <2>1. /\ told' = Applied(told, team, method, S)
        /\ shown' = Handled(shown, team, method, outgoing)
        /\ rejected' = (rejected \/ Rejects(shown, team, method, outgoing))
    BY <1>4 DEF Forward
  <2>2. ~Rejects(told, team, method, outgoing)
    BY <1>1, <1>4, SentIsAccepted
  <2>3. rejected' = FALSE
    BY <1>1, <2>1, <2>2 DEF BSide
  <2>4. told' = shown'
    BY <1>1, <1>2, <2>1, AppliedIsHandled
  <2>5. Sound(told')
    <3>1. method # Create => team \in told.teams
      BY <1>4 DEF Sends, Accepted
    <3>2. Sound(Handled(told, team, method, outgoing))
      BY <1>2, <3>1, HandledIsSound DEF BSide
    <3> QED
      BY <1>1, <2>1, <2>4, <3>2
  <2>6. ASSUME a # NoName, b # NoName
        PROVE  shown'.members[b] = shown'.members[a]
    <3>1. a \in Players /\ b \in Players /\ shown.members[a] = shown.members[b]
      BY <2>6 DEF BSide
    <3>2. a \in S <=> b \in S
      BY <1>1, <3>1, BAffectedWithA
    <3>3. After(shown, team, method, outgoing, shown')
      BY <1>1, <1>2, <2>1, HandledBoard
    <3> HIDE DEF outgoing, S
    <3> QED
      BY <1>2, <3>1, <3>2, <3>3 DEF After
  <2> QED
    BY <2>3, <2>4, <2>5, <2>6 DEF BSide, Sound
<1> QED
  BY <1>3, <1>4

-----------------------------------------------------------------------------
\* The players B's name does not hide.
Other(p) == p # b \/ a \in {NoName, b}

\* What a packet that passes apply's first check does to them, and to the teams.
OthersAfter(team, method, list, p) ==
  shown'.members[p] =
    IF method \in {Create, Join} /\ p \in Named(list) THEN team
    ELSE IF method \in {Delete, Leave} /\ shown.members[p] = team /\ (method = Leave => p \in Named(list))
         THEN NoTeam
    ELSE shown.members[p]

TeamsAfter(team, method, teams, after) ==
  after = CASE method = Create -> teams \cup {team}
            [] method = Delete -> teams \ {team}
            [] OTHER -> teams

\* The teams after a packet that passes apply's first check, sent or not.
LEMMA ForwardOnTeams ==
  ASSUME NEW team \in Teams, NEW method \in Methods, NEW list \in Lists, BSide,
         Accepted(told, team, method), Forward(team, method, list)
  PROVE  TeamsAfter(team, method, shown.teams, shown'.teams)
<1> DEFINE S == Affected(told, team, method, Candidates(list, a, b))
           outgoing == ListedOnce(S)
<1>1. told \in Boards /\ told = shown
  BY DEF BSide, Sound
<1>2. outgoing \in Lists
  BY AffectedIsNamed, NamedOnce
<1>3. CASE ~Sends(told, team, method, S)
  <2>1. method \in {Join, Leave}
    BY <1>3 DEF Sends
  <2>2. shown' = shown
    BY <1>3 DEF Forward
  <2> QED
    BY <2>1, <2>2 DEF TeamsAfter, Create, Delete, Join, Leave
<1>4. CASE Sends(told, team, method, S)
  <2>1. shown' = Handled(shown, team, method, outgoing)
    BY <1>4 DEF Forward
  <2>2. After(shown, team, method, outgoing, shown')
    BY <1>1, <1>2, <2>1, HandledBoard
  <2> QED
    BY <2>2 DEF After, TeamsAfter
<1> QED
  BY <1>3, <1>4

\* The other players after such a packet.
LEMMA ForwardOnOthers ==
  ASSUME NEW team \in Teams, NEW method \in Methods, NEW list \in Lists, NEW p \in Players,
         a \in Players \cup {NoName}, b \in Players \cup {NoName}, Other(p), BSide,
         Accepted(told, team, method), Forward(team, method, list)
  PROVE  OthersAfter(team, method, list, p)
<1> DEFINE candidates == Candidates(list, a, b)
           S == Affected(told, team, method, candidates)
           outgoing == ListedOnce(S)
<1>1. told \in Boards /\ told = shown
  BY DEF BSide, Sound
<1>2. candidates[p] = list[p]
  BY NoNameIsNone DEF Candidates, Lists, Other
<1>3. p \in S <=> p \in Named(list) /\ (method = Leave => shown.members[p] = team)
  BY <1>1, <1>2 DEF Affected, Named
<1>4. S \in SUBSET Players /\ outgoing \in Lists /\ Named(outgoing) = S
  BY AffectedIsNamed, NamedOnce
<1>5. CASE ~Sends(told, team, method, S)
  <2>1. method \in {Join, Leave} /\ S = {}
    BY <1>5 DEF Sends
  <2>2. shown' = shown
    BY <1>5 DEF Forward
  <2> HIDE DEF S
  <2>3. ~(p \in Named(list) /\ (method = Leave => shown.members[p] = team))
    BY <1>3, <2>1
  <2> QED
    BY <2>1, <2>2, <2>3 DEF OthersAfter, Create, Delete, Join, Leave
<1>6. CASE Sends(told, team, method, S)
  <2>1. shown' = Handled(shown, team, method, outgoing)
    BY <1>6 DEF Forward
  <2>2. After(shown, team, method, outgoing, shown')
    BY <1>1, <1>4, <2>1, HandledBoard
  <2> HIDE DEF S, outgoing
  <2> QED
    BY <1>3, <1>4, <2>2 DEF After, OthersAfter, Create, Delete, Join, Leave
<1> QED
  BY <1>5, <1>6

Mirrored ==
  /\ snapshot \subseteq server.teams
  /\ shown.teams = server.teams \ snapshot
  /\ \A p \in Players : Other(p) =>
       shown.members[p] = IF server.members[p] \in snapshot THEN NoTeam ELSE server.members[p]

IInv ==
  /\ Sound(server) /\ Sound(told) /\ Sound(shown)
  /\ a \in Players \cup {NoName} /\ b \in Players \cup {NoName}
  /\ {present, missed, rejected} \subseteq BOOLEAN /\ snapshot \subseteq Teams
  /\ rejected = FALSE
  /\ present => BSide
  /\ present /\ ~missed => Mirrored

\* The invariant gives every property the run checks.
LEMMA IInvImplies == IInv => TypeOK /\ TeamsExist /\ BNeverRejects /\ BFollowsA /\ OthersMirrored
<1> SUFFICES ASSUME IInv PROVE TypeOK /\ TeamsExist /\ BNeverRejects /\ BFollowsA /\ OthersMirrored
  OBVIOUS
<1>1. TypeOK /\ TeamsExist
  BY DEF IInv, Sound, TypeOK, TeamsExist
<1>2. BNeverRejects /\ BFollowsA
  BY DEF IInv, BSide, BNeverRejects, BFollowsA
<1>3. OthersMirrored
  BY DEF IInv, Mirrored, Other, OthersMirrored
<1> QED
  BY <1>1, <1>2, <1>3

\* Three empty boards.
LEMMA InitIInv == Init => IInv
BY EmptyIsSound DEF Init, IInv

-----------------------------------------------------------------------------
\* A new client has an empty board, and so has the proxy's copy.
LEMMA BLogsInKeepsIInv ==
  ASSUME IInv, NEW mid \in BOOLEAN, BLogsIn(mid)
  PROVE  IInv'
<1>1. /\ Sound(server)' /\ Sound(told)' /\ Sound(shown)'
      /\ told' = EmptyBoard /\ shown' = EmptyBoard
  BY EmptyIsSound DEF IInv, BLogsIn, Sound
<1>2. snapshot' = IF mid THEN server.teams ELSE {}
  BY DEF BLogsIn
<1>3. /\ (a \in Players \cup {NoName} /\ b \in Players \cup {NoName})'
      /\ ({present, missed, rejected} \subseteq BOOLEAN)'
      /\ (snapshot \subseteq Teams)'
      /\ rejected' = FALSE
  BY <1>2 DEF IInv, BLogsIn, ReadsNames, Sound, Boards
<1>4. BSide'
  <2>1. a' # NoName /\ b' # NoName => shown'.members[b'] = shown'.members[a']
    BY <1>1, <1>3 DEF EmptyBoard
  <2> QED
    BY <1>1, <1>3, <2>1 DEF BSide
<1>5. ~missed' => Mirrored'
  <2> SUFFICES ASSUME ~missed' PROVE Mirrored'
    OBVIOUS
  <2>1. server' = server /\ \A p \in Players : server.members[p] \in server.teams \cup {NoTeam}
    BY DEF BLogsIn, IInv, Sound
  <2>2. server.teams \subseteq Teams
    BY DEF IInv, Sound, Boards
  <2>3. mid \/ server = EmptyBoard
    BY DEF BLogsIn
  <2>4. snapshot' = server.teams
    BY <1>2, <2>3 DEF EmptyBoard
  <2>5. shown'.teams = {} /\ \A p \in Players : shown'.members[p] = NoTeam
    BY <1>1 DEF EmptyBoard
  <2> QED
    BY <2>1, <2>2, <2>4, <2>5 DEF Mirrored
<1> QED
  BY <1>1, <1>3, <1>4, <1>5 DEF IInv

\* Each team of the snapshot brings its players.
LEMMA SnapshotTeamKeepsIInv ==
  ASSUME IInv, NEW team \in Teams, SnapshotTeam(team)
  PROVE  IInv'
<1> DEFINE list == ListedOnce(OnTeam(server, team))
<1>1. OnTeam(server, team) \in SUBSET Players
  BY DEF OnTeam
<1>2. list \in Lists /\ Named(list) = OnTeam(server, team)
  BY <1>1, NamedOnce
<1> HIDE DEF list
<1>3. /\ Create \in Methods /\ Accepted(told, team, Create)
      /\ Create # Delete /\ Create # Leave
  BY DEF Methods, Accepted, Create, Delete, Leave
<1>4. /\ present /\ team \in snapshot /\ snapshot' = snapshot \ {team}
      /\ Forward(team, Create, list) /\ UNCHANGED <<server, a, b, present, missed>>
  BY DEF SnapshotTeam, list
<1>5. BSide
  BY <1>4 DEF IInv
<1>6. BSide'
  BY <1>2, <1>3, <1>4, <1>5, ForwardKeepsBSide DEF IInv
<1>7. missed \/ Mirrored'
  <2> SUFFICES ASSUME ~missed PROVE Mirrored'
    OBVIOUS
  <2>1. Mirrored
    BY <1>4 DEF IInv
  <2>2. \A p \in Players : Other(p) => OthersAfter(team, Create, list, p)
    BY <1>2, <1>3, <1>4, <1>5, ForwardOnOthers DEF IInv
  <2>3. \A p \in Players : Other(p) =>
          shown'.members[p] = IF server.members[p] = team THEN team ELSE shown.members[p]
    BY <1>2, <1>3, <2>2 DEF OthersAfter, OnTeam
  <2>4. shown'.teams = shown.teams \cup {team}
    <3>1. TeamsAfter(team, Create, shown.teams, shown'.teams)
      BY <1>2, <1>3, <1>4, <1>5, ForwardOnTeams
    <3> QED
      BY <3>1 DEF TeamsAfter, Create, Delete
  <2>5. \A p \in Players : Other(p)' <=> Other(p)
    BY <1>4 DEF Other
  <2>6. NoTeam # team /\ NoTeam \notin snapshot
    BY NoTeamIsNone DEF IInv
  <2> QED
    BY <1>4, <2>1, <2>3, <2>4, <2>5, <2>6 DEF Mirrored
<1>8. /\ Sound(server)' /\ Sound(told)' /\ Sound(shown)'
      /\ rejected' = FALSE /\ (snapshot \subseteq Teams)'
  BY <1>4, <1>6 DEF IInv, BSide, Sound
<1> QED
  BY <1>4, <1>6, <1>7, <1>8 DEF IInv

\* A packet that A's server sends: B's client mirrors it if A's client accepts it.
LEMMA ServerSendsMirrors ==
  ASSUME IInv, NEW team \in Teams, NEW method \in Methods, NEW list \in Lists,
         present, ~missed, snapshot = {}, snapshot' = {}, UNCHANGED <<a, b>>,
         ~Rejects(server, team, method, list),
         server' = Handled(server, team, method, list),
         Forward(team, method, list)
  PROVE  Mirrored'
<1>1. /\ BSide /\ Mirrored /\ Sound(server)
      /\ a \in Players \cup {NoName} /\ b \in Players \cup {NoName}
  BY DEF IInv
<1>2. server \in Boards /\ told = shown
  BY <1>1 DEF Sound, BSide
<1>3. /\ shown.teams = server.teams
      /\ \A p \in Players : Other(p) => shown.members[p] = server.members[p]
  BY <1>1 DEF Mirrored
<1>4. After(server, team, method, list, server')
  BY <1>2, HandledBoard
<1>5. /\ method # Create => team \in server.teams
      /\ method = Leave => \A p \in Named(list) : server.members[p] = team
  BY DEF Rejects
<1>6. SUFFICES /\ shown'.teams = server'.teams
               /\ \A p \in Players : Other(p) => shown'.members[p] = server'.members[p]
  BY DEF Mirrored, Other
<1>7. CASE method \in 0..4
  <2>1. Accepted(told, team, method)
    BY <1>2, <1>3, <1>5, <1>7 DEF Accepted
  <2>2. TeamsAfter(team, method, shown.teams, shown'.teams)
    BY <1>1, <2>1, ForwardOnTeams
  <2>3. shown'.teams = server'.teams
    BY <1>3, <1>4, <2>2 DEF After, TeamsAfter
  <2>4. ASSUME NEW p \in Players, Other(p)
        PROVE  shown'.members[p] = server'.members[p]
    <3>1. OthersAfter(team, method, list, p)
      BY <1>1, <2>1, <2>4, ForwardOnOthers
    <3>2. shown.members[p] = server.members[p]
      BY <1>3, <2>4
    <3> QED
      BY <1>4, <1>5, <3>1, <3>2 DEF After, OthersAfter, Create, Delete, Join, Leave
  <2> QED
    BY <2>3, <2>4
<1>8. CASE method \notin 0..4
  <2>1. ~Sends(told, team, method, Affected(told, team, method, Candidates(list, a, b)))
    BY <1>8 DEF Sends, Accepted
  <2>2. shown' = shown
    BY <2>1 DEF Forward
  <2>3. /\ server'.teams = server.teams
        /\ \A p \in Players : server'.members[p] = server.members[p]
    BY <1>4, <1>8 DEF After, Create, Delete, Join, Leave
  <2> QED
    BY <1>3, <2>2, <2>3
<1> QED
  BY <1>7, <1>8

\* A packet of the server, mirrored or missed.
LEMMA ServerSendsKeepsIInv ==
  ASSUME IInv, NEW team \in Teams, NEW method \in Methods, NEW list \in Lists,
         ServerSends(team, method, list)
  PROVE  IInv'
<1> DEFINE valid == ~Rejects(server, team, method, list)
<1>1. /\ snapshot = {} /\ UNCHANGED <<a, b, present, snapshot>>
      /\ server' = IF valid THEN Handled(server, team, method, list) ELSE server
  BY DEF ServerSends, session
<1>2. Sound(server')
  <2>1. valid => (method # Create => team \in server.teams)
    BY DEF Rejects
  <2>2. Sound(server)
    BY DEF IInv
  <2>3. valid => Sound(Handled(server, team, method, list))
    BY <2>1, <2>2, HandledIsSound
  <2> QED
    BY <1>1, <2>2, <2>3
<1>3. CASE present /\ Forward(team, method, list) /\ missed' = (missed \/ ~valid)
  <2>1. BSide /\ a \in Players \cup {NoName} /\ b \in Players \cup {NoName}
    BY <1>3 DEF IInv
  <2>2. BSide'
    BY <1>1, <1>3, <2>1, ForwardKeepsBSide
  <2>3. ~missed' => Mirrored'
    <3> SUFFICES ASSUME ~missed' PROVE Mirrored'
      OBVIOUS
    <3>1. ~missed /\ valid
      BY <1>3
    <3> QED
      BY <1>1, <1>3, <3>1, ServerSendsMirrors
  <2>4. missed' \in BOOLEAN
    BY <1>3
  <2>5. Sound(told') /\ Sound(shown') /\ rejected' = FALSE
    BY <2>2 DEF BSide, Sound
  <2> QED
    BY <1>1, <1>2, <1>3, <2>2, <2>3, <2>4, <2>5 DEF IInv, Sound
<1>4. CASE missed' = present /\ UNCHANGED <<told, shown, rejected>>
  BY <1>1, <1>2, <1>4 DEF IInv, BSide, Sound
<1> QED
  BY <1>3, <1>4 DEF ServerSends

\* Every board begins anew.
LEMMA ServerLoginKeepsIInv == IInv /\ ServerLogin => IInv'
<1> SUFFICES ASSUME IInv, ServerLogin PROVE IInv'
  OBVIOUS
<1>1. /\ snapshot = {} /\ UNCHANGED <<a, b, present, snapshot, rejected>>
      /\ server' = EmptyBoard /\ missed' = FALSE
  BY DEF ServerLogin, session
<1>2. CASE present /\ told' = EmptyBoard /\ shown' = EmptyBoard
  <2>1. \A p \in Players : EmptyBoard.members[p] = NoTeam
    BY DEF EmptyBoard
  <2>2. BSide'
    BY <1>1, <1>2, <2>1, EmptyIsSound DEF IInv, BSide, Sound
  <2>3. Mirrored'
    BY <1>1, <1>2, <2>1 DEF Mirrored, EmptyBoard
  <2> QED
    BY <1>1, <1>2, <2>2, <2>3, EmptyIsSound DEF IInv, Sound
<1>3. CASE ~present /\ UNCHANGED <<told, shown>>
  BY <1>1, <1>3, EmptyIsSound DEF IInv, Sound
<1> QED
  BY <1>2, <1>3 DEF ServerLogin

\* Without B nothing is promised to B.
LEMMA BLeavesKeepsIInv == IInv /\ BLeaves => IInv'
BY DEF BLeaves, boards, IInv, Sound

\* Nothing changes.
LEMMA StutterKeepsIInv == IInv /\ UNCHANGED vars => IInv'
BY DEF vars, boards, session, IInv, Sound, BSide, Mirrored, Other

\* The invariant is inductive.
LEMMA NextKeepsIInv == IInv /\ [Next]_vars => IInv'
<1> SUFFICES ASSUME IInv, [Next]_vars PROVE IInv'
  OBVIOUS
<1>1. ASSUME NEW mid \in BOOLEAN, BLogsIn(mid) PROVE IInv'
  BY <1>1, BLogsInKeepsIInv
<1>2. ASSUME NEW team \in Teams, SnapshotTeam(team) PROVE IInv'
  BY <1>2, SnapshotTeamKeepsIInv
<1>3. ASSUME NEW team \in Teams, NEW method \in Methods, NEW list \in Lists,
             ServerSends(team, method, list)
      PROVE  IInv'
  BY <1>3, ServerSendsKeepsIInv
<1>4. CASE ServerLogin
  BY <1>4, ServerLoginKeepsIInv
<1>5. CASE BLeaves
  BY <1>5, BLeavesKeepsIInv
<1>6. CASE UNCHANGED vars
  BY <1>6, StutterKeepsIInv
<1> QED
  BY <1>1, <1>2, <1>3, <1>4, <1>5, <1>6 DEF Next

\* It holds in every state (team_state.h:16-59, teams.cpp:24-91).
THEOREM SpecInvariant == Spec => []IInv
BY InitIInv, NextKeepsIInv, PTL DEF Spec

-----------------------------------------------------------------------------
\* The three boards are boards: TypeOK of the model, for any players and teams.
THEOREM BoardsTyped == Spec => []TypeOK
BY SpecInvariant, IInvImplies, PTL

\* No player is recorded on a team that was deleted, or that B was never told of
\* (team_state.h:24-31).
THEOREM TeamsOutliveMembers == Spec => []TeamsExist
BY SpecInvariant, IInvImplies, PTL

\* B's client is never sent a packet that it disconnects for, whatever A's server
\* sends and whatever B missed (team_state.h:16-59).
THEOREM BStaysConnected == Spec => []BNeverRejects
BY SpecInvariant, IInvImplies, PTL

\* B's name stands on A's team in B's own display (team_state.h:34-41).
THEOREM BShowsAsTeam == Spec => []BFollowsA
BY SpecInvariant, IInvImplies, PTL

\* A B that missed nothing shows every other player where the server has put
\* them: what apply suppresses does not matter (team_state.h:40-55).
THEOREM BShowsOthers == Spec => []OthersMirrored
BY SpecInvariant, IInvImplies, PTL
=============================================================================
