-------------------------- MODULE MCProxyProtocol ---------------------------
(* A small instance of ProxyProtocol for TLC. *)
EXTENDS ProxyProtocol, TLC

\* What follows the header: TLS bytes, or bytes that look like a header's.
Hello == {<<"h1", "h2">>, <<"CR", "LF">>, <<"P", "R">>}

\* v1 and v2 headers, complete, with no address, malformed, and at and past the
\* limits; then a stream that is no PROXY connection at all.
Headers(a) ==
    { <<"P", "R", a, "CR", "LF">>, <<"P", "R", "UNKNOWN", "x", "CR", "LF">>,
      <<"P", "R", "CR", "LF">>, <<"P", "R", "x", "CR", "LF">>,
      <<"P", "R", a, "x", "x", "CR", "LF">>, <<"P", "x", a, "CR", "LF">>,
      <<"CR", "LF", "Q", "TCP", "one", a>>, <<"CR", "LF", "Q", "TCP", "two", a, "x">>,
      <<"CR", "LF", "Q", "LOCAL", "zero">>, <<"CR", "LF", "Q", "UNSPEC", "one", "x">>,
      <<"CR", "LF", "Q", "TCP", "zero">>, <<"CR", "LF", "Q", "UDP", "one", a>>,
      <<"CR", "LF", "Q", "TCP", "huge", a>>, <<"CR", "LF", "x", "TCP", "one", a>>, <<>> }

AllHeaders == [a \in Caller |-> {h \o t : h \in Headers(a), t \in Hello}]
=============================================================================
