---------------------------- MODULE Registration ----------------------------
(***************************************************************************)
(* How a program sets up a server, call by call: Use, Service and          *)
(* Subscribe, with what prepareMethod and registerSub accept, and how an   *)
(* address a client builds is taken apart again by the server.             *)
(*                                                                         *)
(* A method is its signature: whether it is exported, the numbers of its   *)
(* parameters (with the receiver) and results, the type of its context     *)
(* parameter, its argument and reply types, and whether its last result is *)
(* error.  A type is a pair of flags: pointer, exported or builtin.        *)
(* Topics, queues and URLs are sequences, of characters and of segments,   *)
(* as the code joins them, tests prefixes and cuts them.                   *)
(***************************************************************************)
EXTENDS Naturals, Sequences, SequencesExt

CONSTANTS
  Programs, \* sequences of setup calls
  Urls      \* what clients are given as the URL of a server

IsSeq(x) == x \in Seq(ToSet(x))

\* The names of types and methods, which are identifiers, are not slashes.
ASSUME ProgramsAssumption ==
  \A p \in Programs :
    /\ IsSeq(p)
    /\ \A i \in DOMAIN p :
         /\ p[i].op \in {"Use", "Service"} => IsSeq(p[i].handlers)
         /\ p[i].op = "Service" => p[i].name # "/" /\ "/" \notin DOMAIN p[i].methods
         /\ p[i].op = "Subscribe" => IsSeq(p[i].topic) /\ IsSeq(p[i].queue)

\* A URL begins with a scheme and a host.
ASSUME UrlsAssumption == \A url \in Urls : IsSeq(url) /\ url # <<>> /\ Head(url) # "/"

VARIABLES
  program,       \* the calls the program makes
  made,          \* how many of them it has made
  middleware,    \* server.middleware
  serviceMap,    \* name of a service |-> its methods and its handlers
  subscriberMap, \* topic.queue |-> the Subscribe call
  fatal          \* log.Fatal has ended the process

setupVars == <<program, made, middleware, serviceMap, subscriberMap, fatal>>

Call == program[made + 1]
Done == fatal \/ made = Len(program)

SetupInit ==
  /\ program \in Programs
  /\ made = 0
  /\ middleware = <<>>
  /\ serviceMap = <<>>
  /\ subscriberMap = <<>>
  /\ fatal = FALSE

-----------------------------------------------------------------------------
(* Setup calls *)

\* The map m after m[k] = v.
Assigned(m, k, v) == [x \in DOMAIN m \cup {k} |-> IF x = k THEN v ELSE m[x]]

Making(op) ==
  /\ ~Done
  /\ Call.op = op
  /\ made' = made + 1
  /\ UNCHANGED program

Use ==
  /\ Making("Use")
  /\ middleware' = middleware \o Call.handlers
  /\ UNCHANGED <<serviceMap, subscriberMap, fatal>>

\* prepareMethod returns a methodType: the argument need not be a pointer.
Prepared(f) ==
  /\ f.exported
  /\ f.ins \in {2, 3}
  /\ f.outs \in {1, 2} /\ f.error
  /\ f.outs = 2 => f.reply.ptr /\ f.reply.exported
  /\ f.arg.exported

Chain(c) == middleware \o c.handlers

\* register; Service ends the process when it returns an error.
Service ==
  LET methods == {n \in DOMAIN Call.methods : Prepared(Call.methods[n])} IN
  /\ Making("Service")
  /\ \/ /\ ~Call.exported \/ Call.name \in DOMAIN serviceMap \/ methods = {}
        /\ fatal' = TRUE
        /\ UNCHANGED serviceMap
     \/ /\ Call.exported /\ Call.name \notin DOMAIN serviceMap /\ methods # {}
        /\ serviceMap' = Assigned(serviceMap, Call.name,
                                  [methods |-> methods, handlers |-> Chain(Call)])
        /\ UNCHANGED fatal
  /\ UNCHANGED <<middleware, subscriberMap>>

\* What registerSub requires of a subscriber's method.
Subscribable(f) ==
  /\ f.outs = 1 /\ f.ins = 2
  /\ f.arg.ptr /\ f.arg.exported
  /\ f.ctx = "*kuja.SubscribeContext"
  /\ f.error

\* Mutant: the key is the queue alone.
Key_QueueOnly(c) == c.queue

Key(c) == c.topic \o <<".">> \o c.queue

\* An unsuitable method is logged and forgotten; two pairs of a topic and a
\* queue with the same joined name are one entry.
Subscribe ==
  /\ Making("Subscribe")
  /\ IF Call.topic = <<>> \/ Call.queue = <<>>
     THEN fatal' = TRUE /\ UNCHANGED subscriberMap
     ELSE /\ subscriberMap' = IF Subscribable(Call.method)
                              THEN Assigned(subscriberMap, Key(Call), Call)
                              ELSE subscriberMap
          /\ UNCHANGED fatal
  /\ UNCHANGED <<middleware, serviceMap>>

Setup == Use \/ Service \/ Subscribe

-----------------------------------------------------------------------------
(* Addresses *)

\* client.New cuts the last character of a URL that begins with a slash.
NewURL(url) == IF Head(url) = "/" THEN Front(url) ELSE url

\* Direct and Discovery; the first segment is the scheme and the host.
GetAddress(url, service, method) == url \o <<"/", service, "/", method>>

\* What is before the first slash and what is behind it.
Parted(s) ==
  LET slashes == {i \in 1 .. Len(s) : s[i] = "/"}
      at == CHOOSE i \in slashes : \A j \in slashes : i <= j IN
  IF slashes = {} THEN <<<<>>, <<>>>>
  ELSE <<SubSeq(s, 1, at - 1), SubSeq(s, at + 1, Len(s))>>

WithoutFirst(s) == IF s # <<>> /\ Head(s) = "/" THEN Tail(s) ELSE s
WithoutLast(s) == IF s # <<>> /\ Last(s) = "/" THEN Front(s) ELSE s

\* Mutant: a slash at the end is not cut off.
getServiceMethod_KeepsEnd(path) == Parted(WithoutFirst(path))

\* One slash is cut off at each end; the first one left separates the two.
getServiceMethod(path) == Parted(WithoutLast(WithoutFirst(path)))

\* What ServeHTTP finds for a path: a method of a service, or none, a 404.
Routed(path) ==
  {r \in UNION {{s} \X serviceMap[s].methods : s \in DOMAIN serviceMap} :
     getServiceMethod(path) = <<<<r[1]>>, <<r[2]>>>>}

-----------------------------------------------------------------------------
(* Properties *)

Made == 1 .. made

\* The middleware Use installed before call i.
Before(i) ==
  FlattenSeq([j \in 1 .. i - 1 |-> IF program[j].op = "Use" THEN program[j].handlers ELSE <<>>])

\* Unless it ended the process, every call of the setup is in force: each
\* service has its suitable methods, guarded by all middleware that Use
\* installed before it and by none that came later, and a subscription with a
\* suitable method is consumed unless a later one has the same joined name.
SetupKept ==
  ~fatal => \A i \in Made : LET c == program[i] IN
    /\ c.op = "Service" =>
         /\ c.name \in DOMAIN serviceMap
         /\ \A n \in DOMAIN c.methods :
              n \in serviceMap[c.name].methods <=> Prepared(c.methods[n])
         /\ serviceMap[c.name].handlers = Before(i) \o c.handlers
    /\ c.op = "Subscribe" /\ Subscribable(c.method) =>
         \/ \E k \in DOMAIN subscriberMap : subscriberMap[k] = c
         \/ \E j \in Made : /\ j > i /\ program[j].op = "Subscribe"
                            /\ Subscribable(program[j].method)
                            /\ program[j].topic \o <<".">> \o program[j].queue
                                 = c.topic \o <<".">> \o c.queue

\* A request to the URL of a host reaches the method it names, with or without
\* a slash at its end; to any other URL, one slash longer or below a path, it
\* reaches nothing rather than another method.
RequestsRouted ==
  \A s \in DOMAIN serviceMap, url \in Urls : \A n \in serviceMap[s].methods :
    LET path == Tail(GetAddress(NewURL(url), s, n)) IN
    \A p \in {path, path \o <<"/">>} :
      Routed(p) = IF Len(url) = 1 THEN {<<s, n>>} ELSE {}
=============================================================================
