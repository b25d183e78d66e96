----------------------------- MODULE MCCookies -----------------------------
EXTENDS CookieJar, TLC

MCLower == [l \in {"com", "baz", "bar", "Baz", "1", "2"} |-> IF l = "Baz" THEN "baz" ELSE l]
Www == <<"com", "baz", "bar">>
Site == <<"com", "baz">>
Address == <<"1", "2">>

MCIp == {Address}
At(name, value) == [name |-> name, value |-> value]
Header(attributes) == [legal |-> TRUE, name |-> "n", value |-> "v", attributes |-> attributes]

HttpsUri == [scheme |-> "https", host |-> Www, path |-> <<"a", "b">>]
HttpUri == [scheme |-> "http", host |-> <<"com", "Baz">>, path |-> <<"a", "">>]
AddressUri == [scheme |-> "http", host |-> Address, path |-> <<"">>]
RelativeUri == [scheme |-> "http", host |-> None, path |-> <<"a">>]

MCReceived == {
    [header |-> Header(<<>>), uri |-> HttpUri],
    [header |-> Header(<<At("domain", <<"com", "Baz">>), At("path", <<"a">>), At("max-age", 1), At("expires", 0)>>), uri |-> HttpsUri],
    [header |-> Header(<<At("domain", <<"com">>)>>), uri |-> HttpsUri],
    [header |-> [Header(<<>>) EXCEPT !.legal = FALSE], uri |-> HttpsUri]}

MCOffered == {
    [cookie |-> Built("n", "w", Site, <<"a">>, TRUE, None), uri |-> HttpsUri],
    [cookie |-> New("n", "w"), uri |-> RelativeUri],
    [cookie |-> Built("n", "w", Site, None, FALSE, None), uri |-> AddressUri]}

(* The site becomes a public suffix in the last edition. *)
MCSuffix == [edition \in 0..MaxEdition |-> IF edition = MaxEdition THEN {Site, <<"com">>} ELSE {<<"com">>}]
=============================================================================
