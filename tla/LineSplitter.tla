---------------------------- MODULE LineSplitter ----------------------------
(***************************************************************************)
(* line_splitter: cuts a text that arrives in chunks (the output of gdb    *)
(* read from a pipe, the body of an ERROR frame) into lines and forwards   *)
(* every line to a sink, which logs it.  One action is a call, one round   *)
(* of the loop in read_and_forward, or the destructor.                     *)
(***************************************************************************)
EXTENDS Naturals, SequencesExt

CONSTANTS LF,       \* the line feed
          Others,   \* characters other than LF
          MaxText,  \* bound on the length of the text
          MaxChunk  \* bound on the length of a chunk

ASSUME SplitterAssumption == LF \notin Others /\ MaxText \in Nat /\ MaxChunk \in Nat

VARIABLES pc,
          rest,           \* the chunk from sol to last
          m_active_line,
          forwarded,      \* the lines m_sink was called with
          given           \* history: the text of all chunks so far

vars == <<pc, rest, m_active_line, forwarded, given>>

Init ==
    /\ pc = "idle"
    /\ rest = <<>> /\ m_active_line = <<>>
    /\ forwarded = <<>> /\ given = <<>>

\* A chunk may end anywhere and may be empty.
read_and_forward(chunk) ==
    /\ pc = "idle"
    /\ Len(given) + Len(chunk) <= MaxText
    /\ given' = given \o chunk
    /\ rest' = chunk
    /\ pc' = "loop"
    /\ UNCHANGED <<m_active_line, forwarded>>

\* std::find; 0 if there is no line feed left.
find == SelectInSeq(rest, LAMBDA c : c = LF)

\* Mutant: the start of the line is forwarded again with the next line.
ForwardLineKept ==
    /\ pc = "loop"
    /\ find # 0
    /\ forwarded' = Append(forwarded, m_active_line \o SubSeq(rest, 1, find - 1))
    /\ rest' = SubSeq(rest, find + 1, Len(rest))
    /\ pc' = IF rest' = <<>> THEN "idle" ELSE "loop"
    /\ UNCHANGED <<given, m_active_line>>

ForwardLine ==
    /\ pc = "loop"
    /\ find # 0
    /\ forwarded' = Append(forwarded, m_active_line \o SubSeq(rest, 1, find - 1))
    /\ m_active_line' = <<>>
    /\ rest' = SubSeq(rest, find + 1, Len(rest))
    /\ pc' = IF rest' = <<>> THEN "idle" ELSE "loop"
    /\ UNCHANGED given

KeepPart ==
    /\ pc = "loop"
    /\ find = 0
    /\ m_active_line' = m_active_line \o rest
    /\ rest' = <<>>
    /\ pc' = "idle"
    /\ UNCHANGED <<forwarded, given>>

\* Mutant: the destructor does not forward the line that was begun.
DestroySilently ==
    /\ pc = "idle"
    /\ pc' = "dead"
    /\ UNCHANGED <<rest, m_active_line, forwarded, given>>

Destroy ==
    /\ pc = "idle"
    /\ pc' = "dead"
    /\ forwarded' = IF m_active_line = <<>> THEN forwarded ELSE Append(forwarded, m_active_line)
    /\ UNCHANGED <<rest, m_active_line, given>>

Next ==
    \/ \E chunk \in BoundedSeq(Others \cup {LF}, MaxChunk) : read_and_forward(chunk)
    \/ ForwardLine \/ KeepPart \/ Destroy
    \/ pc = "dead" /\ UNCHANGED vars

Spec == Init /\ [][Next]_vars
-----------------------------------------------------------------------------
\* Nothing is lost, doubled or moved while chunks come in: the forwarded
\* lines, the line begun and the rest of the chunk are the text so far.
TextPreserved ==
    pc # "dead" =>
        FlattenSeq([i \in DOMAIN forwarded |-> Append(forwarded[i], LF)])
            \o m_active_line \o rest = given

\* The numbers in S in increasing order.
Sorted(S) ==
    CHOOSE c \in [1..Cardinality(S) -> S] : \A i, j \in DOMAIN c : i < j => c[i] < c[j]

\* The pieces of t between line feeds, without an empty one at the end.
Ends(t) == {i \in DOMAIN t : t[i] = LF} \cup {0, Len(t) + 1}

Lines(t) ==
    LET cuts   == Sorted(Ends(t))
        pieces == [k \in 1..Cardinality(Ends(t)) - 1 |-> SubSeq(t, cuts[k] + 1, cuts[k + 1] - 1)]
    IN  IF Last(pieces) = <<>> THEN Front(pieces) ELSE pieces

\* Where the chunks were cut does not show: in the end the sink has seen the
\* lines of the text, the last one also if it was not terminated.
ChunkingInvisible == pc = "dead" => forwarded = Lines(given)
=============================================================================
