------------------------------ MODULE MCPubSub ------------------------------
EXTENDS PubSub

CONSTANTS m1, m2

\* Signatures: a suitable method of a service, one whose argument is no
\* pointer, one that is not exported, one whose reply is no pointer; a suitable
\* subscriber and one with another context type.
Ptr    == [ptr |-> TRUE, exported |-> TRUE]
Val    == [ptr |-> FALSE, exported |-> TRUE]
Method == [exported |-> TRUE, ins |-> 3, outs |-> 2, ctx |-> "*kuja.Context",
           arg |-> Ptr, reply |-> Ptr, error |-> TRUE]
ByValue  == [Method EXCEPT !.arg = Val]
Private  == [Method EXCEPT !.exported = FALSE]
NoReply  == [Method EXCEPT !.reply = Val]
Consumer == [exported |-> TRUE, ins |-> 2, outs |-> 1, ctx |-> "*kuja.SubscribeContext",
             arg |-> Ptr, reply |-> Ptr, error |-> TRUE]
Stranger == [Consumer EXCEPT !.ctx = "*kuja.Context"]

Uses(h) == [op |-> "Use", handlers |-> h]
Serves(n, e, ms, h) ==
  [op |-> "Service", name |-> n, exported |-> e, methods |-> ms, handlers |-> h]
Sub(t, q, n, f) == [op |-> "Subscribe", topic |-> t, queue |-> q, size |-> n, method |-> f]

Some == [get |-> Method, set |-> ByValue, hide |-> Private, put |-> NoReply]
None == [hide |-> Private]

MCPrograms ==
  { \* services, with middleware before and after them
    <<Uses(<<"u">>), Serves("s", TRUE, Some, <<"h">>), Uses(<<"v">>),
      Serves("t", TRUE, [get |-> Method], <<>>)>>,
    <<Serves("s", TRUE, Some, <<>>), Uses(<<"u">>), Serves("s", TRUE, Some, <<>>)>>,
    <<Serves("s", FALSE, Some, <<>>)>>,
    <<Serves("t", TRUE, None, <<>>), Uses(<<"u">>)>>,
    <<Sub(<<>>, <<"q">>, 1, Consumer)>>,
    \* two queues of a topic, one without consumers, and a subscriber that is
    \* not suitable
    <<Sub(<<"a">>, <<"q">>, 2, Consumer), Sub(<<"a">>, <<"r">>, 0, Consumer),
      Sub(<<"a", "b">>, <<"q">>, 1, Stranger)>>,
    \* joined names that are the same, and one queue name below two topics
    <<Sub(<<"a", ".", "b">>, <<"c">>, 1, Consumer), Sub(<<"a">>, <<"b", ".", "c">>, 1, Consumer),
      Sub(<<"a", "b">>, <<"b", ".", "c">>, 1, Consumer)>> }

\* A host, a host with a slash at the end, and paths on it.
MCUrls ==
  {<<"host">>, <<"host", "/">>, <<"host", "/", "api">>, <<"host", "/", "api", "/">>}

MCContent ==
  (m1 :> [Id |-> <<1>>, Header |-> (<<107>> :> <<118>>), Retry |-> 1, Body |-> <<7>>])
    @@ (m2 :> [Id |-> <<>>, Header |-> <<>>, Retry |-> 0, Body |-> <<>>])

MCTopicsOf == (m1 :> {<<"a">>}) @@ (m2 :> {<<"a">>, <<"a", "b">>})

-----------------------------------------------------------------------------
\* Messages at the edges of the encoding: varints of one to ten bytes, empty
\* and long fields, headers of up to three entries.
Bytes(n) == [i \in 1 .. n |-> (i * 37) % 256]

MCSamples ==
  {MCContent[m] : m \in {m1, m2}} \cup
  [Id     : {<<>>, <<65>>, Bytes(130)},
   Header : {<<>>, <<1>> :> <<2, 3>>, <<7>> :> Bytes(300),
             (<<1>> :> <<>>) @@ (<<1, 2>> :> <<9>>) @@ (<<>> :> Bytes(128))},
   Retry  : {0, 1, 127, 128, 300, -1, -129, 268435455, 268435456,
             2147483647, -2147483647 - 1},
   Body   : {NoBody, <<>>, <<34>>, Bytes(127), Bytes(128)}]

MCShort == {m \in MCSamples : Size(m) < 60}
=============================================================================
