--------------------------- MODULE MCHttpDelivery ---------------------------
(***************************************************************************)
(* HttpDelivery with one status code of every kind the client tells apart, *)
(* and keys of two bytes: none, a good one in either case and with a line  *)
(* end, zero, too short, too long, one digit too many, and two prefixed    *)
(* ones, of which the second is too small to be one without its last digit.*)
(***************************************************************************)
EXTENDS HttpDelivery

SomeStatuses == {200, 302, 400, 401, 404, 418, 500, 502, 503, 504}

SomeKeys ==
  { <<>>, <<"a", "1", "0", "b">>, <<"A", "1", "0", "B", "\n">>,
    <<"0", "0", "0", "0">>, <<"a", "1">>, <<"a", "1", "0", "b", "2", "c">>,
    <<"a", "1", "0", "b", "2">>, <<"0", "x", "a", "1", "0", "b">>,
    <<"0", "x", "0", "0", "0", "1">> }
=============================================================================
