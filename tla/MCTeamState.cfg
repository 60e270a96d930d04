\* A, B, another player and two teams: a move between teams, a roster that lists
\* B's name, a player listed twice.
SPECIFICATION Spec
CONSTANTS
  Players = {alice, bob, eve}
  Teams = {red, blue}
  NoTeam = NoTeam
  NoName = NoName
  MaxListed = 2
SYMMETRY Symmetry
INVARIANTS
  BNeverRejects
  BFollowsA
  OthersMirrored
\* a packet can always be sent: deadlock is checked
