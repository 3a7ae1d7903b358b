--------------------------- MODULE JimLocalScope ---------------------------
(***************************************************************************)
(* JimCommands under the discipline [local] is documented for: commands    *)
(* are created only by "local proc" and "local alias" inside a frame, and  *)
(* the name they return is the one they created.  Invocation, upcalls and  *)
(* namespaces are unrestricted.                                            *)
(***************************************************************************)
EXTENDS JimCommands

VARIABLE
    defining    \* the open "local proc" or "local alias", if any, and the
                \* word it has defined

scopeVars == <<commands, cmd, procEpoch, cache, local, frames, stack, freeing, defining>>

NotDefining == [open |-> FALSE, words |-> {}]

ScopeInit == Init /\ defining = NotDefining

\* "local proc w" and "local alias w": open, define, register.
OpenLocal ==
    /\ ~defining.open
    /\ Len(frames) > 1
    /\ LocalBegin
    /\ defining' = [open |-> TRUE, words |-> {}]
DefineLocal(w) ==
    /\ defining.open
    /\ defining.words = {}
    /\ Proc(w) \/ Alias(w)
    /\ defining' = [defining EXCEPT !.words = {w}]
RegisterLocal ==
    /\ \E w \in defining.words : LocalEnd(w)
    /\ defining' = NotDefining

ScopeNext ==
    \/ OpenLocal \/ RegisterLocal
    \/ \E w \in Words : DefineLocal(w)
    \/ /\ ~defining.open
       /\ UNCHANGED defining
       /\ \/ \E w \in Words : Invoke(w) \/ Upcall(w)
          \/ \E n \in Namespaces : NamespaceEval(n)
          \/ UpcallEnd \/ Return \/ DeleteLocal \/ EndReturn

ScopeSpec == ScopeInit /\ [][ScopeNext]_scopeVars

---------------------------------------------------------------------------
\* Local commands leave no trace: whenever no script is running, the table is
\* the initial one again and every other Jim_Cmd has been freed, whatever was
\* pushed, invoked and called up in between.
LocalsLeaveNoTrace ==
    stack = <<>> /\ ~freeing.on =>
        /\ commands = InitTable
        /\ \A c \in CmdIds :
              cmd[c].inUse = IF \E k \in DOMAIN InitTable : InitTable[k] = c THEN 1 ELSE 0
=============================================================================
