------------------------------ MODULE EventMsg ------------------------------
(***************************************************************************)
(* The message of an event, as the pass writes it (class ParaFt) and the   *)
(* engine decodes it (EventMsg.c). A message is a sequence of marks and of *)
(* variables [name, type]: an integer by its name, a pointer by the address*)
(* it has at run time, a function by its name alone.                       *)
(***************************************************************************)
EXTENDS Naturals, SequencesExt

Variable(name, type) == [name |-> name, type |-> type]
Mark(c) == Variable(c, "mark")
IsVar(t) == t.type # "mark"

MSG_BEGIN == Mark("{")
MSG_END   == Mark("}")
MSG_FP_L  == Mark("(")
MSG_FP_R  == Mark(")")
MSG_DF    == Mark("=")
MSG_MT    == Mark(",")

\* A comma is not repeated, and gives way to the end of the message.
AppendFormat(ft, t) ==
    CASE ft # <<>> /\ Last(ft) = MSG_MT /\ t = MSG_MT  -> ft
      [] ft # <<>> /\ Last(ft) = MSG_MT /\ t = MSG_END -> Append(Front(ft), t)
      [] OTHER                                         -> Append(ft, t)

\* IsNameExist, IsArgExist: a variable is written twice at most. The code looks for the
\* name of an integer as text; no name of the model is the end of another.
IsExist(ft, var) == \E j, k \in DOMAIN ft : j # k /\ ft[j] = var /\ ft[k] = var
AddVar(ft, var) == IF IsExist(ft, var) THEN ft ELSE AppendFormat(ft, var)

Put(ft, t) == IF IsVar(t) THEN AddVar(ft, t) ELSE AppendFormat(ft, t)

\* What stands in the buffer when these marks and variables are appended to it, one by one.
Write(tokens) ==
    LET ft[n \in 0 .. Len(tokens)] == IF n = 0 THEN <<>> ELSE Put(ft[n - 1], tokens[n])
    IN  ft[Len(tokens)]
-----------------------------------------------------------------------------
Decoded(def, use) == [Def |-> def, Use |-> use]
Vars(msg) == FlattenSeq([k \in DOMAIN msg |-> IF IsVar(msg[k]) THEN <<msg[k]>> ELSE <<>>])

\* One token of DeEvent. The character behind a variable is passed over, which cuts
\* the name of one that follows at once; a = that follows none becomes part of the
\* next name, for GetVarName does not stop at it.
Read(at, t) ==
    LET var == IF at.glue \/ at.behind THEN Variable("garbled", t.type) ELSE t
        next == [at EXCEPT !.behind = TRUE, !.glue = FALSE]
    IN  CASE IsVar(t) /\ at.isDef  -> [next EXCEPT !.def = Append(@, var)]
          [] IsVar(t) /\ ~at.isDef -> [next EXCEPT !.use = Append(@, var)]
          [] t = MSG_DF /\ at.behind  -> [at EXCEPT !.isDef = FALSE, !.behind = FALSE]
          [] t = MSG_DF /\ ~at.behind -> [at EXCEPT !.glue = TRUE]
          [] OTHER                    -> [at EXCEPT !.behind = FALSE]

\* Variables are definitions up to the first that a = follows.
DeEvent(msg) ==
    LET start == [isDef |-> MSG_DF \in Range(msg), behind |-> FALSE, glue |-> FALSE,
                  def |-> <<>>, use |-> <<>>]
        at[n \in 0 .. Len(msg)] == IF n = 0 THEN start ELSE Read(at[n - 1], msg[n])
        end == at[Len(msg)]
    IN  Decoded(end.def, end.use)

DeRETEvent(msg) == Decoded(<<>>, Vars(msg))
DeFEvent(msg) == Decoded(<<msg[1]>>, <<>>)

\* The function called, its formal parameters, and what follows them.
DeCallEvent(msg) ==
    LET close  == IF Len(msg) > 1 /\ msg[2] = MSG_FP_L
                  THEN CHOOSE k \in DOMAIN msg : msg[k] = MSG_FP_R ELSE 1
        vars   == Vars(SubSeq(msg, 2, close))
        formal == [k \in DOMAIN vars |-> Variable(vars[k].name, "A")]
        rest   == DeEvent(SubSeq(msg, close + 2, Len(msg)))
    IN  Decoded(<<msg[1]>> \o formal \o rest.Def, rest.Use)

DecodeEventMsg(type, msg) ==
    LET m == Tail(msg)
    IN  CASE type = "FENTRY" -> DeFEvent(m)
          [] type = "RET"    -> DeRETEvent(m)
          [] type = "CALL"   -> DeCallEvent(m)
          [] OTHER           -> DeEvent(m)
=============================================================================
