----------------------------- MODULE ErrorChain -----------------------------
(***************************************************************************)
(* How an error travels from its cause to the log: the macro `ectx!` and   *)
(* the derived Error types (macros.rs), the conversions between the kinds  *)
(* of the modules (services/error.rs) and format_error (utils.rs).         *)
(*                                                                         *)
(* An error is the sequence of what it has been given as context: the      *)
(* root cause first, the kind of the module that holds it last.            *)
(***************************************************************************)
EXTENDS Naturals, Sequences, SequencesExt, SeqFilter

\* A context or a line of the log: where it is from and what it says.
Ctx(layer, name) == [layer |-> layer, name |-> name]

\* "at file:line with args - ..."
At == Ctx("at", "")

\* Mutant: the error is replaced, as by map_err(|_| kind).
EctxForgets(e, contexts) == <<At>> \o contexts

\* $e.context(msg).context(...)...
Ectx(e, contexts) == e \o <<At>> \o contexts

\* Error::kind: the context that was given last.
Kind(e) == Last(e)

\* From<IosClientErrorKind>, From<CallbackClientErrorKind> and
\* From<EmailClientErrorKind> for ErrorKind.
ServiceKind(kind) == Ctx("service", kind.name)

\* `ectx!(convert ...)`: the kind it had, translated, comes last.
EctxConvert(e, contexts) == Ectx(e, Append(contexts, ServiceKind(Kind(e))))

-----------------------------------------------------------------------------
(* format_error                                                            *)

\* The crate whose frames are looked for, and the name of this one.
FilteredCrate == "transactions_lib"
OwnCrate == "payments_notifications_lib"

Header == Ctx("log", "Relevant backtrace:")

\* e, e.cause(), e.cause().cause(), ...
CauseChain(e) == [i \in 1..Len(e) |-> SubSeq(e, 1, Len(e) + 1 - i)]

Relevant(lines) == Keep(lines, {line \in ToSet(lines) : line.name = FilteredCrate})

\* The first line of a backtrace is skipped; then come pairs of lines, a
\* frame's symbol and its place in the source, which goes along with it.
RelevantBacktrace(text) ==
  LET lines == Tail(text)
      symbols == [k \in 1..((Len(lines) + 1) \div 2) |-> lines[2 * k - 1]] IN
    (IF lines = <<>> THEN <<Header>> ELSE <<>>) \o Relevant(symbols)

\* The chain is printed from the root cause to the outermost context.
FormatError(e, backtrace) ==
  [i \in 1..Len(e) |-> Last(Reverse(CauseChain(e))[i])] \o RelevantBacktrace(backtrace)
=============================================================================
