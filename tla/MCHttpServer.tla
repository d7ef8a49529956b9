---------------------------- MODULE MCHttpServer ----------------------------
(* Small instances of HttpServer for TLC. *)
EXTENDS HttpServer, TLC

Plain(framing, length, body) ==
  [head |-> "plain", framing |-> framing, length |-> length, body |-> body]
Other(head) == [head |-> head, framing |-> "empty", length |-> 0, body |-> <<>>]

\* With a cap of two units: no body, a body of the cap, one declared over it, a
\* chunked body within it, one whose second chunk crosses it, one that is
\* malformed, an upgrade, and a head that is refused with a body behind it.
SmallRequests ==
  {Plain("empty", 0, <<>>),
   Plain("length", 2, <<Data, Data>>),
   Plain("length", 3, <<Data, Data, Data>>),
   Plain("chunked", 0, <<Size(1), Data, Blank, Size(0), Blank>>),
   Plain("chunked", 0, <<Size(1), Data, Blank, Size(2), Data, Data>>),
   Plain("chunked", 0, <<Junk>>),
   Other("upgrade"), [Other("refused") EXCEPT !.body = <<Data>>]}

=============================================================================
