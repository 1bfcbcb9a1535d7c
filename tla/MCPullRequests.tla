---------------------------- MODULE MCPullRequests ----------------------------
(***************************************************************************)
(* A request for each kind of target, the one for the match asked for by   *)
(* this very process, the one for the server without a nonce, and one      *)
(* without a target.  The values hold quotes, brackets, a backslash, a     *)
(* control character and a surrogate pair, a nonce is longer than the      *)
(* limit, and so is a form field.  A behaviour has either three calls of   *)
(* the game, or two and a pull it asks for, or a cut and a failure, or     *)
(* four failures.                                                          *)
(***************************************************************************)
EXTENDS PullRequests

Player  == <<"player", Quote, "}", Slash>>
Match   == <<"m1", "]">>
Server  == <<"srv", "/", "{", Smile>>
Session == <<"s1">>

R(id, type, value, nonce, expiry) ==
    [ requestId |-> <<id>>, targetType |-> <<type>>, targetValue |-> value,
      fulfillNonce |-> nonce, nonceExpiry |-> expiry ]

ForUser    == R("r1", "userId", Player, <<"n1", Control>>, 17)
ForServer  == R("r2", "server", Server, <<>>, 0)
ForMatch   == R("r3", "matchId", Match, <<"n3", "x", "y">>, 2)
ForNobody  == R("r4", "matchId", <<>>, <<"n4">>, 30)
ForSession == R("r5", "sessionId", Session, <<"n5", Quote>>, -4)

MCOrder    == <<ForSession, ForServer, ForUser, ForMatch, ForNobody>>
MCRequests == Range(MCOrder)
MCListed   == MCRequests \ {ForMatch}

MCUsers   == {Player}
MCMatches == {Match}
MCServers == {Server}

MCGrants ==
    { <<>>,
      <<[url |-> <<"https", "/">>, method |-> "PUT", fields |-> <<>>]>>,
      <<[url |-> <<"https", Quote>>, method |-> "POST",
         fields |-> << << <<"key">>, <<"logs", "/", "}">> >>, << <<"Policy">>, <<Slash>> >> >>]>>,
      <<[url |-> <<"https">>, method |-> "POST", fields |-> <<>>]>>,
      <<[url |-> <<"https">>, method |-> "POST",
         fields |-> << << <<"key">>, <<"a", "/", "b", "/">> >> >>]>> }

MCRetryHeaders ==
    { [text |-> <<>>, seconds |-> -1],
      [text |-> <<" ", "1", "2", "0", "\r", "\n">>, seconds |-> 120],
      [text |-> <<"9", "9", "9">>, seconds |-> 999],
      [text |-> <<"W", "e", "d", " ", "2", "1">>, seconds |-> -1],
      [text |-> <<"1", "2", "3", "4", "5", "6", "7", "8", "9", "0">>, seconds |-> 1234567890],
      [text |-> <<"3">>, seconds |-> 3] }

MCBudgets ==
    { [call |-> 3, beat |-> 1, ask |-> 0, cut |-> 0, fail |-> 0],
      [call |-> 2, beat |-> 1, ask |-> 1, cut |-> 0, fail |-> 0],
      [call |-> 0, beat |-> 1, ask |-> 0, cut |-> 1, fail |-> 1],
      [call |-> 0, beat |-> 1, ask |-> 0, cut |-> 0, fail |-> 4] }

ASSUME MCHeadersAreRead == HeadersAreRead

\* A call, a beat, and what may go wrong with them.
ConsentBudgets == { [call |-> 1, beat |-> 1, ask |-> 0, cut |-> 0, fail |-> 1] }
=============================================================================
