--------------------------- MODULE MCWebCrawlSync ---------------------------
(* Instances of WebCrawlSync for TLC. *)
EXTENDS WebCrawlSync, TLC

CONSTANTS a, b, c, x, y

(* Page a changes once, page b never does and comes without an etag; c is  *)
(* never in scope.                                                         *)
MCTextOf == (a :> <<x, y>>) @@ (b :> <<x>>) @@ (c :> <<x>>)

List(urls) == [entry |-> "url_list", urls |-> urls]
MCConfigs == {List(<<a, b, a>>), List(<<b>>), List(<<c>>)}
=============================================================================
