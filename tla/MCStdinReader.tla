--------------------------- MODULE MCStdinReader ----------------------------
(***************************************************************************)
(* TLC instance of StdinReader, with a reference definition of "the lines   *)
(* of a stream" to compare the delivered lines with.                        *)
(***************************************************************************)
EXTENDS StdinReader, SequencesExt

\* The complete lines of a stream, empty ones included: the text between a
\* newline (or the start) and the next newline.
CompleteLines(stream) ==
  LET Step(acc, b) == IF b = NL THEN [done |-> Append(acc.done, acc.open), open |-> << >>]
                      ELSE [acc EXCEPT !.open = Append(@, b)]
  IN  FoldLeft(Step, [done |-> << >>, open |-> << >>], stream).done

\* The byte after a newline is not tested (main.c:104): when it is the newline of
\* an empty line, that line is not delivered on its own but in front of the next
\* one, where the worker's sscanf skips it.
BeginsEmpty(l) == l # << >> /\ Head(l) = NL
LinesIn(l) == IF BeginsEmpty(l) THEN << << >>, Tail(l) >> ELSE << l >>

\* At the end of every chunk the workers have been given exactly the lines that
\* are complete in what was read, however the stream was cut: empty lines are
\* delivered on their own or in front of the next line, depending on the cut, one
\* of them may still wait in the remainder, and none is lost (main.c:59-142).
RequestsAreLines ==
  pc # "scan" =>
    FlattenSeq([k \in DOMAIN job_queue |-> LinesIn(job_queue[k])])
      \o (IF BeginsEmpty(tmp_line_buf) THEN << << >> >> ELSE << >>)
      = CompleteLines(SubSeq(input, 1, consumed))
=============================================================================
