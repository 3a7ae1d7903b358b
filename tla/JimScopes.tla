----------------------------- MODULE JimScopes -----------------------------
(***************************************************************************)
(* What the variables of the Jim interpreter promise a script, without the *)
(* lookup caches, Jim_Var structures and frame ids of JimVariables: every  *)
(* frame maps names to contents, contents may be a link to a name of some  *)
(* frame, and a read, write or unset that was asked for acts at once on    *)
(* the end of the chain of links that starts at the name.                  *)
(***************************************************************************)
EXTENDS Integers, Sequences

CONSTANTS Bases, Vals, StaticNames

Nil == "nil"
Done == "done"
Fail == "fail"

VARIABLES
    scopes,     \* the frames: caller, level, and name -> [obj, link]
    cur,        \* the current one
    stack,      \* the calls and [uplevel]s that are running
    static,     \* the values of the static variables
    request,    \* the operation a script has asked for
    result      \* the outcome of the last one

scopeVars == <<scopes, cur, stack, static, request, result>>
scripts == <<scopes, cur, stack>>

NoRequest == [kind |-> "none", node |-> <<>>, val |-> Nil, target |-> <<>>]

Plain(obj) == [obj |-> obj, link |-> 0]
NewScope(parent, level, hasStatics) ==
    [parent |-> parent, level |-> level, hasStatics |-> hasStatics,
     vars |-> [b \in {} |-> Plain(b)]]

---------------------------------------------------------------------------
(* Names, as nodes <<frame, name>>, and what they stand for *)

Nodes == (DOMAIN scopes) \X Bases

IsStatic(n) ==
    /\ n[2] \notin DOMAIN scopes[n[1]].vars
    /\ scopes[n[1]].hasStatics
    /\ n[2] \in StaticNames
InTable(n) == n[2] \in DOMAIN scopes[n[1]].vars
Exists(n) == InTable(n) \/ IsStatic(n)
Contents(n) == IF InTable(n) THEN scopes[n[1]].vars[n[2]] ELSE Plain(static[n[2]])
IsLink(n) == InTable(n) /\ Contents(n).link # 0
Target(n) == <<Contents(n).link, Contents(n).obj>>

\* The nodes reached from n, and the ends among them: there is one, unless the
\* links go round in a circle.
Chain(n) ==
    {m \in Nodes : \A S \in SUBSET Nodes :
        n \in S /\ (\A x \in S : IsLink(x) => Target(x) \in S) => m \in S}
Ends(n) == {m \in Chain(n) : ~IsLink(m)}

Callers(f) ==
    {g \in DOMAIN scopes : \A S \in SUBSET DOMAIN scopes :
        f \in S /\ (\A x \in S : scopes[x].parent # 0 => scopes[x].parent \in S) => g \in S}

\* A name stands for a variable of the current frame or of the top one.
Visible == {n \in Nodes : n[1] \in {1, cur}}

With(n, contents) ==
    [scopes EXCEPT ![n[1]].vars =
        [b \in DOMAIN scopes[n[1]].vars \cup {n[2]} |->
            IF b = n[2] THEN contents ELSE scopes[n[1]].vars[b]]]
Without(n) ==
    [scopes EXCEPT ![n[1]].vars =
        [b \in DOMAIN scopes[n[1]].vars \ {n[2]} |-> scopes[n[1]].vars[b]]]

---------------------------------------------------------------------------
(* What scripts do and ask for *)

Running == request = NoRequest

Enter(hasStatics) ==
    /\ Running
    /\ scopes' = Append(scopes, NewScope(cur, scopes[cur].level + 1, hasStatics))
    /\ cur' = Len(scopes) + 1
    /\ stack' = Append(stack, [kind |-> "call", saved |-> 0])

Call(hasStatics) == Enter(hasStatics) /\ UNCHANGED <<static, request, result>>

\* A call with a parameter b that is to stand for the caller's t.
CallByName(b, t) ==
    /\ Enter(FALSE)
    /\ request' = [NoRequest EXCEPT !.kind = "byname", !.node = <<Len(scopes) + 1, b>>,
                                    !.target = t]
    /\ UNCHANGED <<static, result>>

Pop(s) == SubSeq(s, 1, Len(s) - 1)
Ending(kind) == stack # <<>> /\ stack[Len(stack)].kind = kind

Leave ==
    /\ Ending("call")
    /\ cur = Len(scopes)
    /\ cur' = scopes[cur].parent
    /\ scopes' = Pop(scopes)
    /\ stack' = Pop(stack)
    /\ UNCHANGED static

EndCall == Running /\ Leave /\ UNCHANGED <<request, result>>

Uplevel(g) ==
    /\ Running
    /\ g \in Callers(cur)
    /\ cur' = g
    /\ stack' = Append(stack, [kind |-> "uplevel", saved |-> cur])
    /\ UNCHANGED <<scopes, static, request, result>>

EndUplevel ==
    /\ Running
    /\ Ending("uplevel")
    /\ cur' = stack[Len(stack)].saved
    /\ stack' = Pop(stack)
    /\ UNCHANGED <<scopes, static, request, result>>

Ask(kind, n, v, t) ==
    /\ Running
    /\ request' = [kind |-> kind, node |-> n, val |-> v, target |-> t]
    /\ UNCHANGED <<scripts, static, result>>

---------------------------------------------------------------------------
(* What happens to a request *)

Asked(kind) == request.kind = kind
Answer(r) == request' = NoRequest /\ result' = r

Get ==
    /\ Asked("get")
    /\ \E end \in Ends(request.node) :
          Answer(IF Exists(end) THEN Contents(end).obj ELSE Fail)
    /\ UNCHANGED <<scripts, static>>

Set ==
    /\ Asked("set")
    /\ \E end \in Ends(request.node) :
          IF IsStatic(end)
          THEN static' = [static EXCEPT ![end[2]] = request.val] /\ UNCHANGED scopes
          ELSE scopes' = With(end, Plain(request.val)) /\ UNCHANGED static
    /\ Answer(Done)
    /\ UNCHANGED <<cur, stack>>

\* A static variable cannot be unset.
Unset ==
    /\ Asked("unset")
    /\ \E end \in Ends(request.node) :
          IF InTable(end) THEN scopes' = Without(end) /\ Answer(Done)
          ELSE UNCHANGED scopes /\ Answer(Fail)
    /\ UNCHANGED <<cur, stack, static>>

\* The node of the request is made a link to its target.  It must not be a
\* variable already; if it is a link, the link is cut even when the new one
\* cannot be made, and the name of its target remains as a value.
Upvar ==
    LET n == request.node
        t == request.target
    IN  /\ Asked("upvar")
        /\ IF Exists(n) /\ ~IsLink(n) THEN UNCHANGED scopes /\ Answer(Fail)
           ELSE IF scopes[n[1]].level < scopes[t[1]].level \/ n \in Chain(t)
           THEN /\ scopes' = IF IsLink(n) THEN With(n, Plain(Contents(n).obj)) ELSE scopes
                /\ Answer(Fail)
           ELSE /\ scopes' = With(n, [obj |-> t[2], link |-> t[1]])
                /\ Answer(Done)
        /\ UNCHANGED <<cur, stack, static>>

\* The argument of a by-name parameter exists, or the call fails.
ByName ==
    /\ Asked("byname")
    /\ \E end \in Ends(request.target) : Exists(end)
    /\ request' = [request EXCEPT !.kind = "upvar"]
    /\ UNCHANGED <<scripts, static, result>>
ByNameMissing ==
    /\ Asked("byname")
    /\ \E end \in Ends(request.target) : ~Exists(end)
    /\ Leave
    /\ Answer(Fail)

---------------------------------------------------------------------------
Init ==
    /\ scopes = <<NewScope(0, 0, FALSE)>>
    /\ cur = 1
    /\ stack = <<>>
    /\ \E v \in Vals : static = [b \in StaticNames |-> v]
    /\ request = NoRequest
    /\ result = Done

Next ==
    \/ \E hasStatics \in BOOLEAN : Call(hasStatics)
    \/ EndCall \/ EndUplevel
    \/ \E g \in DOMAIN scopes : Uplevel(g)
    \/ \E b \in Bases, t \in Visible : CallByName(b, t)
    \/ \E n \in Visible : Ask("get", n, Nil, <<>>) \/ Ask("unset", n, Nil, <<>>)
    \/ \E n \in Visible, v \in Vals : Ask("set", n, v, <<>>)
    \/ \E n \in Visible, t \in Nodes : t[1] \in Callers(cur) /\ Ask("upvar", n, Nil, t)
    \/ Get \/ Set \/ Unset \/ Upvar \/ ByName \/ ByNameMissing

Spec == Init /\ [][Next]_scopeVars
=============================================================================
