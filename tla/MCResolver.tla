----------------------------- MODULE MCResolver -----------------------------
(***************************************************************************)
(* An instance of Resolver: one bot, an AS_BOT route, an OBO route and an  *)
(* OBO route whose Action is white space; a space the bot may enter, one   *)
(* it may not, and one octo-server calls malformed.                        *)
(***************************************************************************)
EXTENDS Resolver, TLC

CONSTANTS name, home, away, odd, read, write

robot == [prefix |-> "bf_", tail |-> "long", name |-> name]
app   == [prefix |-> "app_", tail |-> "long", name |-> name]
human == [prefix |-> "none", tail |-> "long", name |-> name]

Bearer(raw) == [authorization |-> [scheme |-> "bearer", token |-> raw], token |-> Empty]

MCPresented == {Bearer(robot), Bearer(app), Bearer(human)}

MCRoutes == {[mode |-> "AS_BOT", action |-> NoAction], [mode |-> "OBO", action |-> read],
             [mode |-> "OBO", action |-> BlankAction]}

Holding(state, spaces, actions) ==
  [b \in Bots |-> [state |-> state, spaces |-> spaces, actions |-> actions]]

MCStandings ==
  {Holding("active", {home}, {read}), Holding("active", {home}, {write}),
   Holding("active", {away}, {read}), Holding("active", {home}, {}),
   Holding("disabled", {home}, {read}), Holding("unknown", {home}, {read})}

Symmetric == Permutations(Requests)
=============================================================================
