------------------------- MODULE HttpDeliveryProofs --------------------------
(***************************************************************************)
(* Theorems about HexCodec, ErrorChain and HttpDelivery, for any statuses, *)
(* bodies, keys and key length.                                            *)
(***************************************************************************)
EXTENDS HttpDelivery, SequenceLemmas

-----------------------------------------------------------------------------
(* Keys and their digits.                                                  *)

\* filter_map lets digits through and nothing else (utils.rs).
LEMMA DigitsType ==
  ASSUME NEW D, NEW text \in Seq(D)
  PROVE  DigitsOf(text) \in Seq(HexDigits)
<1>1. DigitsOf(text) \in Seq(D \cap HexDigits)
  BY KeepType DEF DigitsOf
<1>2. D \cap HexDigits \subseteq HexDigits
  OBVIOUS
<1> QED BY <1>1, <1>2, SeqMonotonic

\* Every digit has a value.
LEMMA DigitValueType ==
  ASSUME NEW c \in HexDigits
  PROVE  DigitValue(c) \in 0..15
<1>1. \E v \in 0..15 : c \in {Chars[v + 1], UpperChars[v + 1]}
  <2>1. PICK w \in 1..16 : c \in {Chars[w], UpperChars[w]}
    BY DEF HexDigits
  <2>2. w - 1 \in 0..15 /\ (w - 1) + 1 = w
    OBVIOUS
  <2> QED BY <2>1, <2>2
<1> QED BY <1>1 DEF DigitValue

\* A byte made of two digits gives them back: h << 4 | l, >> 4 and & 0xf.
LEMMA Nibbles ==
  ASSUME NEW h \in 0..15, NEW l \in 0..15
  PROVE  /\ 16 * h + l \in 0..255
         /\ (16 * h + l) \div 16 = h
         /\ (16 * h + l) % 16 = l
OBVIOUS

\* Two by two, at most one digit is left.
LEMMA Halves ==
  ASSUME NEW n \in Nat
  PROVE  /\ n \div 2 \in Nat
         /\ n \in {2 * (n \div 2), 2 * (n \div 2) + 1}
OBVIOUS

\* What parse_hex makes of any text (utils.rs).
LEMMA BytesOfDigits ==
  ASSUME NEW D, NEW text \in Seq(D)
  PROVE  LET ds == DigitsOf(text) IN
           /\ ParseHex(text) \in Seq(0..255)
           /\ Len(ParseHex(text)) = Len(ds) \div 2
           /\ \A k \in 1..(Len(ds) \div 2) :
                /\ DigitValue(ds[2 * k - 1]) \in 0..15 /\ DigitValue(ds[2 * k]) \in 0..15
                /\ ParseHex(text)[k] = 16 * DigitValue(ds[2 * k - 1]) + DigitValue(ds[2 * k])
<1> DEFINE ds == DigitsOf(text)
           n == Len(ds) \div 2
<1>1. ds \in Seq(HexDigits) /\ Len(ds) \in Nat /\ n \in Nat /\ 2 * n <= Len(ds)
  BY DigitsType, Halves
<1> HIDE DEF ds
<1>2. ASSUME NEW k \in 1..n
      PROVE  /\ DigitValue(ds[2 * k - 1]) \in 0..15 /\ DigitValue(ds[2 * k]) \in 0..15
             /\ 16 * DigitValue(ds[2 * k - 1]) + DigitValue(ds[2 * k]) \in 0..255
  <2>1. 2 * k - 1 \in 1..Len(ds) /\ 2 * k \in 1..Len(ds)
    BY <1>1
  <2>2. ds[2 * k - 1] \in HexDigits /\ ds[2 * k] \in HexDigits
    BY <1>1, <2>1, ElementOfSeq
  <2>3. DigitValue(ds[2 * k - 1]) \in 0..15 /\ DigitValue(ds[2 * k]) \in 0..15
    BY <2>2, DigitValueType
  <2> QED BY <2>3, Nibbles
<1>3. ParseHex(text) = [k \in 1..n |-> 16 * DigitValue(ds[2 * k - 1]) + DigitValue(ds[2 * k])]
  BY DEF ParseHex, ds
<1> HIDE DEF n
<1>4. ParseHex(text) \in Seq(0..255) /\ Len(ParseHex(text)) = n
  BY <1>1, <1>2, <1>3
<1> QED BY <1>2, <1>3, <1>4 DEF n, ds

\* What to_hex makes of one byte (utils.rs).
LEMMA HexOfBytes ==
  ASSUME NEW bytes, Len(bytes) \in Nat, NEW k \in 1..Len(bytes),
         NEW h \in 0..15, NEW l \in 0..15, bytes[k] = 16 * h + l
  PROVE  ToHex(bytes)[2 * k - 1] = Chars[h + 1] /\ ToHex(bytes)[2 * k] = Chars[l + 1]
<1> DEFINE n == Len(bytes)
<1>1. /\ 2 * k - 1 \in 1..(2 * n) /\ 2 * k \in 1..(2 * n)
      /\ ((2 * k - 1) + 1) \div 2 = k /\ (2 * k + 1) \div 2 = k
      /\ (2 * k - 1) % 2 = 1 /\ (2 * k) % 2 = 0
  OBVIOUS
<1>2. (16 * h + l) \div 16 = h /\ (16 * h + l) % 16 = l
  BY Nibbles
<1> DEFINE odd == 2 * k - 1
           even == 2 * k
<1>3. /\ odd \in 1..(2 * n) /\ even \in 1..(2 * n)
      /\ (odd + 1) \div 2 = k /\ (even + 1) \div 2 = k /\ odd % 2 = 1 /\ even % 2 # 1
  BY <1>1
<1> HIDE DEF odd, even
<1>4. ToHex(bytes)[odd] = Chars[1 + h]
  BY <1>2, <1>3 DEF ToHex
<1>5. ToHex(bytes)[even] = Chars[1 + l]
  BY <1>2, <1>3 DEF ToHex
<1>6. 1 + h = h + 1 /\ 1 + l = l + 1
  OBVIOUS
<1> QED BY <1>4, <1>5, <1>6 DEF odd, even

(***************************************************************************)
(* to_hex writes back what parse_hex has read of a text, any text: its     *)
(* digits, in their order and in lower case, but for an odd one at the end.*)
(***************************************************************************)
THEOREM HexRoundTrip ==
  ASSUME NEW D, NEW text \in Seq(D)
  PROVE  LET ds == DigitsOf(text) IN
           ToHex(ParseHex(text)) =
             [j \in 1..(2 * (Len(ds) \div 2)) |-> Chars[DigitValue(ds[j]) + 1]]
<1> DEFINE ds == DigitsOf(text)
           n == Len(ds) \div 2
           bytes == ParseHex(text)
<1>1. /\ n \in Nat /\ Len(bytes) = n
      /\ \A k \in 1..n :
           /\ DigitValue(ds[2 * k - 1]) \in 0..15 /\ DigitValue(ds[2 * k]) \in 0..15
           /\ bytes[k] = 16 * DigitValue(ds[2 * k - 1]) + DigitValue(ds[2 * k])
  <2>1. Len(ds) \in Nat
    BY DigitsType
  <2> QED BY <2>1, Halves, BytesOfDigits
<1> HIDE DEF ds, n, bytes
<1>2. ASSUME NEW j \in 1..(2 * n)
      PROVE  ToHex(bytes)[j] = Chars[DigitValue(ds[j]) + 1]
  <2>1. PICK k \in 1..n : j = 2 * k - 1 \/ j = 2 * k
    <3>1. (j + 1) \div 2 \in Nat /\ j + 1 \in {2 * ((j + 1) \div 2), 2 * ((j + 1) \div 2) + 1}
      <4>1. j + 1 \in Nat
        BY <1>1
      <4> QED BY <4>1, Halves
    <3> DEFINE k == (j + 1) \div 2
    <3> HIDE DEF k
    <3>2. k \in Nat /\ j + 1 \in {2 * k, 2 * k + 1}
      BY <3>1 DEF k
    <3>3. k \in 1..n /\ (j = 2 * k - 1 \/ j = 2 * k)
      BY <1>1, <3>2
    <3> QED BY <3>3
  <2>2. /\ ToHex(bytes)[2 * k - 1] = Chars[DigitValue(ds[2 * k - 1]) + 1]
        /\ ToHex(bytes)[2 * k] = Chars[DigitValue(ds[2 * k]) + 1]
    <3> DEFINE h == DigitValue(ds[2 * k - 1])
               l == DigitValue(ds[2 * k])
    <3>1. /\ Len(bytes) \in Nat /\ k \in 1..Len(bytes)
          /\ h \in 0..15 /\ l \in 0..15 /\ bytes[k] = 16 * h + l
      BY <1>1
    <3> HIDE DEF h, l
    <3>2. ToHex(bytes)[2 * k - 1] = Chars[h + 1] /\ ToHex(bytes)[2 * k] = Chars[l + 1]
      BY ONLY <3>1, HexOfBytes
    <3> QED BY <3>2 DEF h, l
  <2> QED BY <2>1, <2>2
<1>3. ToHex(bytes) = [j \in 1..(2 * n) |-> ToHex(bytes)[j]]
  BY <1>1 DEF ToHex
<1>4. ToHex(bytes) = [j \in 1..(2 * n) |-> Chars[DigitValue(ds[j]) + 1]]
  BY <1>2, <1>3
<1> QED BY <1>4 DEF ds, n, bytes

\* The x of a prefix 0x is skipped and its 0 is a digit (utils.rs).
LEMMA PrefixedDigits ==
  ASSUME NEW D, NEW t \in Seq(D), "0" \in D, "x" \in D
  PROVE  DigitsOf(<<"0", "x">> \o t) = <<"0">> \o DigitsOf(t)
<1> DEFINE zero == "0"
           ex == "x"
<1>1. zero \in HexDigits /\ ex \notin HexDigits /\ zero \in D /\ ex \in D
  BY DEF HexDigits, Chars, UpperChars
<1> HIDE DEF zero, ex
<1>2. <<zero, ex>> \in Seq(D) /\ <<zero>> \in Seq(D) /\ <<zero>> \in Seq(HexDigits)
  BY <1>1
<1>3. <<zero, ex>> = Append(<<zero>>, ex)
  BY <1>1
<1>4. Keep(<<zero, ex>>, HexDigits) = Keep(<<zero>>, HexDigits)
  <2>1. Keep(Append(<<zero>>, ex), HexDigits) =
          IF ex \in HexDigits THEN Append(Keep(<<zero>>, HexDigits), ex)
          ELSE Keep(<<zero>>, HexDigits)
    BY <1>1, <1>2, KeepAppend
  <2> QED BY <1>1, <1>3, <2>1
<1>5. Keep(<<zero>>, HexDigits) = <<zero>>
  BY <1>2, KeepAll
<1>6. Keep(<<zero, ex>> \o t, HexDigits) = Keep(<<zero, ex>>, HexDigits) \o Keep(t, HexDigits)
  <2> DEFINE prefix == <<zero, ex>>
  <2>1. prefix \in Seq(D)
    BY <1>2
  <2> HIDE DEF prefix
  <2>2. Keep(prefix \o t, HexDigits) = Keep(prefix, HexDigits) \o Keep(t, HexDigits)
    BY <2>1, KeepConcat
  <2> QED BY <2>2 DEF prefix
<1> QED BY <1>4, <1>5, <1>6 DEF DigitsOf, zero, ex

\* The value of 0 is 0.
LEMMA ZeroValue == DigitValue("0") = 0
BY DEF DigitValue, Chars, UpperChars

-----------------------------------------------------------------------------
(* Errors and the log.                                                     *)

(***************************************************************************)
(* format_error prints what an error was given as context in the order in  *)
(* which it was given, root cause first, and leaves nothing out.           *)
(***************************************************************************)
THEOREM LogKeepsTheChain ==
  ASSUME NEW S, NEW e \in Seq(S), NEW text
  PROVE  FormatError(e, text) = e \o RelevantBacktrace(text)
<1> DEFINE chain == CauseChain(e)
           printed == [i \in 1..Len(e) |-> Last(Reverse(chain)[i])]
<1>1. Len(e) \in Nat /\ Len(chain) = Len(e)
  BY DEF CauseChain
<1>2. ASSUME NEW i \in 1..Len(e)
      PROVE  Last(Reverse(chain)[i]) = e[i]
  <2>1. Reverse(chain)[i] = chain[(Len(e) - i) + 1]
    BY <1>1 DEF Reverse
  <2>2. chain[(Len(e) - i) + 1] = SubSeq(e, 1, i)
    BY <1>1 DEF CauseChain
  <2>3. Len(SubSeq(e, 1, i)) = i /\ SubSeq(e, 1, i)[i] = e[i]
    BY <1>1, SubSeqProperties
  <2> QED BY <2>1, <2>2, <2>3 DEF Last
<1>3. printed = [i \in 1..Len(e) |-> e[i]]
  BY <1>2
<1>4. e = [i \in 1..Len(e) |-> e[i]]
  OBVIOUS
<1> QED BY <1>3, <1>4 DEF FormatError

\* A context that is no line of the log's own.
Context == [layer : Words, name : Words]

\* A layer and a name make a context.
LEMMA CtxIsContext ==
  ASSUME NEW layer \in Words, NEW name \in Words
  PROVE  Ctx(layer, name) \in Context /\ Ctx(layer, name).name = name
BY DEF Ctx, Context

\* Two of them are all a client adds to an error at a time.
LEMMA FewLines ==
  ASSUME NEW a \in Context
  PROVE  /\ <<a>> \in Seq(Context) /\ Len(<<a>>) = 1 /\ Last(<<a>>) = a
         /\ \A b \in Context : <<b, a>> \in Seq(Context)
BY DEF Last

\* What `ectx!` returns starts with the error it was given (macros.rs).
LEMMA EctxKeeps ==
  ASSUME NEW e \in Seq(Context), NEW contexts \in Seq(Context)
  PROVE  /\ Ectx(e, contexts) \in Seq(Context)
         /\ Len(Ectx(e, contexts)) = Len(e) + 1 + Len(contexts)
         /\ contexts # <<>> => Last(Ectx(e, contexts)) = Last(contexts)
         /\ \A i \in 1..Len(e) : Ectx(e, contexts)[i] = e[i]
<1>1. <<At>> \in Seq(Context) /\ Len(<<At>>) = 1
  <2>1. At \in Context
    <3>1. "at" \in Words /\ "" \in Words
      BY DEF Words
    <3> QED BY <3>1, CtxIsContext DEF At
  <2> QED BY <2>1, FewLines
<1>2. Ectx(e, contexts) = (e \o <<At>>) \o contexts
  BY DEF Ectx
<1>3. e \o <<At>> \in Seq(Context) /\ Len(e \o <<At>>) = Len(e) + 1
  BY <1>1
<1>4. /\ Ectx(e, contexts) \in Seq(Context)
      /\ Len(Ectx(e, contexts)) = Len(e) + 1 + Len(contexts)
  BY <1>2, <1>3
<1>5. ASSUME contexts # <<>> PROVE Last(Ectx(e, contexts)) = Last(contexts)
  <2>1. Len(contexts) \in Nat \ {0}
    BY <1>5
  <2>2. Ectx(e, contexts)[Len(e) + 1 + Len(contexts)] = contexts[Len(contexts)]
    BY <1>2, <1>3, <2>1, ConcatProperties
  <2> QED BY <1>4, <2>2 DEF Last
<1>6. ASSUME NEW i \in 1..Len(e) PROVE Ectx(e, contexts)[i] = e[i]
  <2> DEFINE front == e \o <<At>>
  <2>1. front[i] = e[i] /\ i \in 1..Len(front)
    BY <1>1, <1>3
  <2> HIDE DEF front
  <2>2. (front \o contexts)[i] = front[i]
    BY <1>3, <2>1 DEF front
  <2> QED BY <1>2, <2>1, <2>2 DEF front
<1> QED BY <1>4, <1>5, <1>6

\* A client gives every error one of its kinds, and the retry loop takes it over
\* (services/error.rs): the chain goes on with what it was.
LEMMA ServiceError ==
  ASSUME NEW e \in Seq(Context), NEW sources \in Seq(Context), NEW kind \in Words
  PROVE  LET err == EctxConvert(ClientError(e, sources, kind), <<>>) IN
           /\ err \in Seq(Context) /\ Len(err) \in Nat \ {0} /\ Len(e) <= Len(err)
           /\ \A i \in 1..Len(e) : err[i] = e[i]
           /\ Last(err) = Ctx("service", kind) /\ Kind(err).name = kind
<1> DEFINE own == sources \o <<Ctx("client kind", kind)>>
           inner == ClientError(e, sources, kind)
<1>1. own \in Seq(Context) /\ own # <<>> /\ Last(own) = Ctx("client kind", kind)
  <2> DEFINE last == Ctx("client kind", kind)
  <2>1. last \in Context
    <3>1. "client kind" \in Words
      BY DEF Words
    <3> QED BY <3>1, CtxIsContext
  <2> HIDE DEF last
  <2>2. <<last>> \in Seq(Context) /\ Len(<<last>>) = 1
    BY <2>1, FewLines
  <2>3. (sources \o <<last>>) \in Seq(Context)
    BY <2>2
  <2>4. (sources \o <<last>>) # <<>> /\ Last(sources \o <<last>>) = last
    BY <2>2, <2>3 DEF Last
  <2> QED BY <2>3, <2>4 DEF last
<1>2. inner = Ectx(e, own)
  BY DEF ClientError
<1> HIDE DEF own, inner
<1>3. /\ inner \in Seq(Context) /\ Last(inner) = Ctx("client kind", kind)
      /\ Len(inner) = Len(e) + 1 + Len(own) /\ \A i \in 1..Len(e) : inner[i] = e[i]
  BY <1>1, <1>2, EctxKeeps
<1>4. Kind(inner).name = kind
  <2>1. "client kind" \in Words
    BY DEF Words
  <2> QED BY <1>3, <2>1, CtxIsContext DEF Kind
<1> DEFINE service == Ctx("service", kind)
<1>5. service \in Context /\ service.name = kind
  <2>1. "service" \in Words
    BY DEF Words
  <2> QED BY <2>1, CtxIsContext
<1>6. EctxConvert(inner, <<>>) = Ectx(inner, <<service>>)
  <2>1. Append(<<>>, ServiceKind(Kind(inner))) = <<service>>
    BY <1>4 DEF ServiceKind
  <2> QED BY <2>1 DEF EctxConvert
<1> HIDE DEF service
<1>7. <<service>> \in Seq(Context) /\ <<service>> # <<>> /\ Last(<<service>>) = service
  BY <1>5, FewLines
<1> DEFINE err == Ectx(inner, <<service>>)
<1>8. /\ err \in Seq(Context) /\ Len(err) = Len(inner) + 1 + Len(<<service>>)
      /\ Last(err) = service /\ \A i \in 1..Len(inner) : err[i] = inner[i]
  BY <1>3, <1>7, EctxKeeps
<1> HIDE DEF err
<1>9. Len(err) \in Nat \ {0} /\ Len(e) <= Len(err) /\ \A i \in 1..Len(e) : err[i] = e[i]
  <2> DEFINE single == <<service>>
  <2> HIDE DEF single
  <2>1. Len(inner) \in Nat /\ Len(own) \in Nat /\ Len(single) \in Nat /\ Len(e) \in Nat
    BY <1>1, <1>3, <1>7, LenProperties DEF single
  <2>2. Len(inner) = Len(e) + 1 + Len(own) /\ Len(err) = Len(inner) + 1 + Len(single)
    BY <1>3, <1>8 DEF single
  <2>3. Len(err) \in Nat \ {0} /\ Len(e) <= Len(inner) /\ Len(inner) <= Len(err)
    BY <2>1, <2>2
  <2>4. \A i \in 1..Len(e) : i \in 1..Len(inner)
    BY <2>1, <2>3
  <2>5. \A i \in 1..Len(e) : inner[i] = e[i] /\ err[i] = inner[i]
    BY <1>3, <1>8, <2>4
  <2> QED BY <2>1, <2>3, <2>5
<1> QED BY <1>5, <1>6, <1>8, <1>9 DEF inner, err, service, Kind

\* ... and the attempt ends with that kind.
LEMMA FailedIsDone ==
  ASSUME NEW e \in Seq(Context), NEW sources \in Seq(Context), NEW kind \in Words,
         Failed(ClientError(e, sources, kind))
  PROVE  stage' = "done" /\ result' = kind
BY ServiceError DEF Failed

\* The errors of the HTTP client and of the remote service.
LEMMA HttpErrorsType ==
  /\ \A root \in Context, kind \in Words : HttpError(root, kind) \in Seq(Context)
  /\ \A s \in Nat : ServerError(s) \in Seq(Context)
<1>1. ASSUME NEW root \in Context, NEW kind \in Words
      PROVE  HttpError(root, kind) \in Seq(Context)
  <2>1. "http" \in Words /\ "Hyper" \in Words /\ "http kind" \in Words
    BY DEF Words
  <2>2. Ctx("http", "Hyper") \in Context /\ Ctx("http kind", kind) \in Context
    BY <2>1, CtxIsContext
  <2>3. <<Ctx("http", "Hyper"), Ctx("http kind", kind)>> \in Seq(Context)
    BY <2>2, FewLines
  <2>4. <<root>> \in Seq(Context)
    BY FewLines
  <2> QED BY <2>3, <2>4, EctxKeeps DEF HttpError
<1>2. ASSUME NEW s \in Nat
      PROVE  ServerError(s) \in Seq(Context)
  <2>1. StatusKind(s) \in Words
    <3>1. StatusKind(s) \in {"BadRequest", "Unauthorized", "NotFound", "Internal",
                             "BadGateway", "GatewayTimeout", "UnknownServerError"}
      BY DEF StatusKind
    <3> QED BY <3>1 DEF Words
  <2>2. "http" \in Words /\ "Server" \in Words /\ "http kind" \in Words
    BY DEF Words
  <2>3. Ctx("http", "Server") \in Context /\ Ctx("http kind", StatusKind(s)) \in Context
    BY <2>1, <2>2, CtxIsContext
  <2>4. <<Ctx("http", "Server")>> \in Seq(Context) /\ <<Ctx("http kind", StatusKind(s))>> \in Seq(Context)
    BY <2>3, FewLines
  <2> QED BY <2>4, EctxKeeps DEF ServerError
<1> QED BY <1>1, <1>2

-----------------------------------------------------------------------------
(***************************************************************************)
(* The inductive invariant.  HttpTypeOK without sign and log: what         *)
(* SelectSeq returns is beyond the provers.                                *)
(***************************************************************************)
Shape ==
  /\ job \in Jobs
  /\ stage \in {"building", "exchanging", "checking", "reading", "done"}
  /\ written \in BOOLEAN /\ processed \in 0..1
  /\ answer \in Answers \cup {NoAnswer}
  /\ result \in ErrorKinds \cup {"none", "ok", "dropped"}

\* What is known of an attempt at each of its stages.
Progress ==
  /\ stage # "done" => result = "none"
  /\ stage = "building" => ~written /\ answer = NoAnswer
  /\ stage \in {"checking", "reading"} =>
       answer # NoAnswer /\ ~(job.level = "debug" /\ answer.body = "cut")
  /\ stage = "reading" => ~IsErrorStatus(answer.status) /\ job.client # "email"
  /\ answer.status \in 200..299 => processed = 1
  /\ result = "ok" => answer # NoAnswer /\ ~IsErrorStatus(answer.status)

Signed ==
  /\ sign # <<>> => IsSecretKey(sign) /\ sign = ParseHex(job.key)
  /\ (job.client = "callback" /\ (written \/ stage = "exchanging")) => sign # <<>>

HttpInv == Shape /\ Progress /\ Signed /\ MalformedIsUnsent /\ LogLevelIsHarmless

\* An answer is none that is missing.
LEMMA AnswerIsSome == \A a \in Answers : a # NoAnswer /\ a.status \in 200..599
<1> SUFFICES ASSUME NEW a \in Answers PROVE a # NoAnswer /\ a.status \in 200..599
  OBVIOUS
<1>1. a.status \in 200..599
  BY HttpAssumption DEF Answers
<1>2. NoAnswer.status = 0
  BY DEF NoAnswer
<1> QED BY <1>1, <1>2

\* Nothing has been sent or answered when a client is called.
LEMMA HttpInitInv == HttpInit => HttpInv
<1> SUFFICES ASSUME HttpInit PROVE HttpInv
  OBVIOUS
<1>1. Shape
  <2>1. processed \in 0..1
    BY DEF HttpInit
  <2>2. /\ job \in Jobs /\ stage = "building" /\ written = FALSE
        /\ answer = NoAnswer /\ result = "none"
    BY DEF HttpInit
  <2> QED BY <2>1, <2>2, Zenon DEF Shape
<1>2. Progress /\ Signed
  BY DEF HttpInit, Progress, Signed, NoAnswer
<1>3. MalformedIsUnsent /\ LogLevelIsHarmless
  BY DEF HttpInit, MalformedIsUnsent, LogLevelIsHarmless
<1> QED BY <1>1, <1>2, <1>3 DEF HttpInv

\* An attempt that fails with `kind` keeps the invariant.
LEMMA FailureInv ==
  ASSUME HttpInv, NEW kind \in ErrorKinds, stage # "done",
         stage' = "done", result' = kind,
         UNCHANGED <<job, written, processed, sign, answer>>,
         kind = "MalformedInput" => ~written /\ answer = NoAnswer,
         answer # NoAnswer =>
           ~(GoodAnswer /\ ~(job.client = "email" /\ job.level = "debug" /\ answer.body = "cut"))
  PROVE  HttpInv'
<1> USE DEF HttpInv
<1>1. kind # "ok" /\ kind # "none" /\ kind # "dropped"
  BY DEF ErrorKinds
<1>2. Shape'
  BY DEF Shape
<1>3. Progress' /\ Signed'
  BY <1>1 DEF Progress, Signed
<1>4. MalformedIsUnsent'
  BY <1>1 DEF MalformedIsUnsent
<1>5. LogLevelIsHarmless'
  BY <1>1 DEF LogLevelIsHarmless, GoodAnswer
<1> QED BY <1>2, <1>3, <1>4, <1>5

\* Whatever a client reports is one of its kinds, and a word.
LEMMA KindsAreWords == ErrorKinds \subseteq Words
BY DEF ErrorKinds, Words

\* An attempt that ends, with a kind of error, as the clients end it.
LEMMA FailedInv ==
  ASSUME HttpInv, NEW e \in Seq(Context), NEW sources \in Seq(Context), NEW kind \in ErrorKinds,
         stage # "done", Failed(ClientError(e, sources, kind)),
         UNCHANGED <<job, written, processed, sign, answer>>,
         kind = "MalformedInput" => ~written /\ answer = NoAnswer,
         answer # NoAnswer =>
           ~(GoodAnswer /\ ~(job.client = "email" /\ job.level = "debug" /\ answer.body = "cut"))
  PROVE  HttpInv'
<1>1. kind \in Words
  BY KindsAreWords
<1>2. stage' = "done" /\ result' = kind
  BY <1>1, FailedIsDone
<1> QED BY <1>2, FailureInv

\* An attempt that goes on, or is written, answered or processed, keeps what is
\* said of its result.
LEMMA OngoingInv ==
  ASSUME HttpInv, stage # "done", result' = result, Shape', Progress', Signed'
  PROVE  HttpInv'
<1>1. result' = "none"
  BY DEF HttpInv, Progress
<1> QED BY <1>1 DEF HttpInv, MalformedIsUnsent, LogLevelIsHarmless

\* create_sign (client/callback/mod.rs).
LEMMA CreateSignInv == ASSUME HttpInv, CreateSign PROVE HttpInv'
<1>1. stage = "building" /\ ~written /\ answer = NoAnswer /\ stage # "done"
  BY DEF CreateSign, HttpInv, Progress
<1>2. CASE IsSecretKey(ParseHex(job.key))
  <2>1. sign' = ParseHex(job.key) /\ UNCHANGED <<stage, result, job, written, processed, answer>>
    BY <1>2 DEF CreateSign
  <2>2. Shape' /\ Progress'
    BY <2>1 DEF HttpInv, Shape, Progress
  <2>3. IsSecretKey(sign)' /\ (sign = ParseHex(job.key))'
    BY <1>2, <2>1 DEF IsSecretKey
  <2>4. Signed'
    BY <1>1, <2>1, <2>3 DEF Signed
  <2> QED BY <1>1, <2>1, <2>2, <2>4, OngoingInv
<1>3. CASE ~IsSecretKey(ParseHex(job.key))
  <2> DEFINE inner == ClientError(<<Ctx("root", "secp256k1")>>, <<>>, "Internal")
  <2>1. /\ Failed(ClientError(inner, <<Ctx("client", "Hyper")>>, "MalformedInput"))
        /\ UNCHANGED <<job, written, processed, sign, answer>>
    BY <1>3 DEF CreateSign
  <2>2. /\ "root" \in Words /\ "secp256k1" \in Words /\ "client" \in Words
        /\ "Hyper" \in Words /\ "client kind" \in Words /\ "Internal" \in Words
    BY DEF Words
  <2>3. /\ <<Ctx("root", "secp256k1")>> \in Seq(Context)
        /\ <<Ctx("client", "Hyper")>> \in Seq(Context)
    BY <2>2, CtxIsContext, FewLines
  <2>4. <<Ctx("client kind", "Internal")>> \in Seq(Context)
    BY <2>2, CtxIsContext, FewLines
  <2>5. <<>> \o <<Ctx("client kind", "Internal")>> = <<Ctx("client kind", "Internal")>>
    BY <2>4, ConcatEmptySeq
  <2>6. inner \in Seq(Context)
    BY <2>3, <2>4, <2>5, EctxKeeps DEF ClientError
  <2>7. "MalformedInput" \in ErrorKinds
    BY DEF ErrorKinds
  <2> HIDE DEF inner
  <2> QED BY <1>1, <2>1, <2>3, <2>6, <2>7, FailedInv
<1> QED BY <1>2, <1>3

\* Request::builder, in the three clients.
LEMMA BuildRequestInv == ASSUME HttpInv, BuildRequest PROVE HttpInv'
<1>1. stage = "building" /\ ~written /\ answer = NoAnswer /\ stage # "done"
  BY DEF BuildRequest, HttpInv, Progress
<1>2. CASE job.uri = "good"
  <2>1. stage' = "exchanging" /\ UNCHANGED <<result, job, written, processed, sign, answer>>
    BY <1>2 DEF BuildRequest, Proceed
  <2>2. Shape' /\ Progress'
    BY <1>1, <2>1 DEF HttpInv, Shape, Progress
  <2>3. Signed'
    BY <1>1, <2>1 DEF HttpInv, Signed, BuildRequest
  <2> QED BY <1>1, <2>1, <2>2, <2>3, OngoingInv
<1>3. CASE job.uri # "good"
  <2>1. /\ Failed(ClientError(<<Ctx("root", "http")>>, <<Ctx("client", "Hyper")>>, "MalformedInput"))
        /\ UNCHANGED <<job, written, processed, sign, answer>>
    BY <1>3 DEF BuildRequest
  <2>2. "root" \in Words /\ "http" \in Words /\ "client" \in Words /\ "Hyper" \in Words
    BY DEF Words
  <2>3. <<Ctx("root", "http")>> \in Seq(Context) /\ <<Ctx("client", "Hyper")>> \in Seq(Context)
    BY <2>2, CtxIsContext, FewLines
  <2>4. "MalformedInput" \in ErrorKinds
    BY DEF ErrorKinds
  <2> QED BY <1>1, <2>1, <2>3, <2>4, FailedInv
<1> QED BY <1>2, <1>3

\* The exchange with the remote service (client/http_client/mod.rs).
LEMMA ExchangeInv ==
  ASSUME HttpInv,
         WriteRequest \/ RemoteProcesses \/ \E a \in Answers : RemoteAnswers(a)
  PROVE  HttpInv'
<1>1. CASE WriteRequest
  <2>1. /\ stage = "exchanging" /\ written' = TRUE
        /\ UNCHANGED <<job, stage, processed, sign, answer, result>>
    BY <1>1 DEF WriteRequest
  <2>2. Shape'
    BY <2>1 DEF HttpInv, Shape
  <2>3. Progress' /\ Signed'
    BY <2>1 DEF HttpInv, Progress, Signed
  <2> QED BY <2>1, <2>2, <2>3, OngoingInv
<1>2. CASE RemoteProcesses
  <2>1. /\ written /\ processed' = 1
        /\ UNCHANGED <<job, stage, written, sign, answer, result>>
    BY <1>2 DEF RemoteProcesses
  <2>2. Shape' /\ Progress' /\ Signed'
    BY <2>1 DEF HttpInv, Shape, Progress, Signed
  <2>3. MalformedIsUnsent' /\ LogLevelIsHarmless'
    BY <2>1 DEF HttpInv, MalformedIsUnsent, LogLevelIsHarmless, GoodAnswer
  <2> QED BY <2>2, <2>3 DEF HttpInv
<1>3. ASSUME NEW a \in Answers, RemoteAnswers(a)
      PROVE  HttpInv'
  <2>1. /\ stage = "exchanging" /\ answer' = a /\ (a.status \in 200..299 => processed = 1)
        /\ UNCHANGED <<job, stage, written, processed, sign, result>>
    BY <1>3 DEF RemoteAnswers
  <2>2. Shape' /\ Progress' /\ Signed'
    BY <2>1 DEF HttpInv, Shape, Progress, Signed
  <2> QED BY <2>1, <2>2, OngoingInv
<1> QED BY <1>1, <1>2, <1>3

\* An error inside of hyper, as one of the HTTP client and then of the caller.
LEMMA HyperErrorType ==
  HttpError(Ctx("root", "hyper"), "Internal") \in Seq(Context)
<1>1. "root" \in Words /\ "hyper" \in Words /\ "Internal" \in Words
  BY DEF Words
<1>2. Ctx("root", "hyper") \in Context
  BY <1>1, CtxIsContext
<1> QED BY <1>1, <1>2, HttpErrorsType

\* No connection, or a broken one (client/http_client/mod.rs).
LEMMA ExchangeFailsInv == ASSUME HttpInv, ExchangeFails PROVE HttpInv'
<1>1. "Internal" \in ErrorKinds /\ <<>> \in Seq(Context) /\ "Internal" # "MalformedInput"
  BY DEF ErrorKinds
<1>2. /\ stage # "done" /\ answer = NoAnswer
      /\ Failed(ClientError(HttpError(Ctx("root", "hyper"), "Internal"), <<>>, "Internal"))
      /\ UNCHANGED <<job, written, processed, sign, answer>>
  BY DEF ExchangeFails
<1> QED BY <1>1, <1>2, HyperErrorType, FailedInv

\* The body is read first when the log is at debug (client/http_client/mod.rs).
LEMMA AnswerArrivesInv == ASSUME HttpInv, AnswerArrives PROVE HttpInv'
<1>1. /\ stage = "exchanging" /\ stage # "done" /\ answer # NoAnswer
      /\ UNCHANGED <<job, written, processed, sign, answer>>
  BY DEF AnswerArrives
<1>2. CASE job.level = "debug" /\ answer.body = "cut"
  <2>1. "Internal" \in ErrorKinds /\ <<>> \in Seq(Context) /\ "Internal" # "MalformedInput"
    BY DEF ErrorKinds
  <2>2. Failed(ClientError(HttpError(Ctx("root", "hyper"), "Internal"), <<>>, "Internal"))
    BY <1>2 DEF AnswerArrives
  <2>3. ~(GoodAnswer /\ ~(job.client = "email" /\ job.level = "debug" /\ answer.body = "cut"))
    BY <1>2 DEF GoodAnswer
  <2> QED BY <1>1, <2>1, <2>2, <2>3, HyperErrorType, FailedInv
<1>3. CASE ~(job.level = "debug" /\ answer.body = "cut")
  <2>1. stage' = "checking" /\ UNCHANGED result
    BY <1>3 DEF AnswerArrives, Proceed
  <2>2. Shape' /\ Progress' /\ Signed'
    BY <1>1, <1>3, <2>1 DEF HttpInv, Shape, Progress, Signed
  <2> QED BY <1>1, <2>1, <2>2, OngoingInv
<1> QED BY <1>2, <1>3

\* A success keeps the invariant: the answer is there, is no error, and the
\* client made of it all it makes of it.
LEMMA SuccessInv ==
  ASSUME HttpInv, stage # "done", Resolve("ok"),
         UNCHANGED <<job, written, processed, sign, answer>>,
         answer # NoAnswer, ~IsErrorStatus(answer.status), GoodAnswer,
         ~(job.level = "debug" /\ answer.body = "cut")
  PROVE  HttpInv'
<1>1. stage' = "done" /\ result' = "ok"
  BY DEF Resolve
<1>2. Shape' /\ Progress' /\ Signed'
  BY <1>1 DEF HttpInv, Shape, Progress, Signed, IsErrorStatus
<1>3. MalformedIsUnsent' /\ LogLevelIsHarmless'
  BY <1>1 DEF MalformedIsUnsent, LogLevelIsHarmless, GoodAnswer
<1> QED BY <1>2, <1>3 DEF HttpInv

\* What the head of an answer is to the clients (client/http_client/mod.rs).
LEMMA CheckStatusInv == ASSUME HttpInv, CheckStatus PROVE HttpInv'
<1>1. /\ stage = "checking" /\ stage # "done"
      /\ UNCHANGED <<job, written, processed, sign, answer>>
  BY DEF CheckStatus
<1>2. /\ answer # NoAnswer /\ ~(job.level = "debug" /\ answer.body = "cut")
      /\ answer \in Answers
  BY <1>1 DEF HttpInv, Shape, Progress
<1>3. answer.status \in 200..599
  BY <1>2, AnswerIsSome
<1>4. CASE IsErrorStatus(answer.status)
  <2>1. Failed(ClientError(ServerError(answer.status), <<>>, KindForClient(answer.status)))
    BY <1>4 DEF CheckStatus
  <2>2. /\ KindForClient(answer.status) \in ErrorKinds
        /\ KindForClient(answer.status) # "MalformedInput" /\ <<>> \in Seq(Context)
    BY DEF KindForClient, ErrorKinds
  <2>3. ServerError(answer.status) \in Seq(Context)
    <3>1. answer.status \in Nat
      BY <1>3
    <3>2. \A s \in Nat : ServerError(s) \in Seq(Context)
      BY HttpErrorsType
    <3> QED BY <3>1, <3>2, Zenon
  <2>4. ~GoodAnswer
    BY <1>3, <1>4 DEF GoodAnswer, IsErrorStatus
  <2> QED BY <1>1, <2>1, <2>2, <2>3, <2>4, FailedInv
<1>5. CASE ~IsErrorStatus(answer.status) /\ job.client = "email"
  <2>1. Resolve("ok")
    BY <1>5 DEF CheckStatus
  <2>2. GoodAnswer
    BY <1>2, <1>3, <1>5 DEF GoodAnswer, IsErrorStatus
  <2> QED BY <1>1, <1>2, <1>5, <2>1, <2>2, SuccessInv
<1>6. CASE ~IsErrorStatus(answer.status) /\ job.client # "email"
  <2>1. stage' = "reading" /\ UNCHANGED result
    BY <1>6 DEF CheckStatus, Proceed
  <2>2. Shape' /\ Progress' /\ Signed'
    BY <1>1, <1>2, <1>6, <2>1 DEF HttpInv, Shape, Progress, Signed, IsErrorStatus
  <2> QED BY <1>1, <2>1, <2>2, OngoingInv
<1> QED BY <1>4, <1>5, <1>6

\* read_body, from_utf8 and from_str, for callbacks and pushes.
LEMMA ReadAnswerInv == ASSUME HttpInv, ReadAnswer PROVE HttpInv'
<1>1. /\ stage = "reading" /\ stage # "done"
      /\ UNCHANGED <<job, written, processed, sign, answer>>
  BY DEF ReadAnswer
<1>2. /\ answer # NoAnswer /\ ~(job.level = "debug" /\ answer.body = "cut")
      /\ answer \in Answers /\ ~IsErrorStatus(answer.status) /\ job.client # "email"
  BY <1>1 DEF HttpInv, Shape, Progress
<1>3. CASE Understood(answer.body)
  <2>1. Resolve("ok")
    BY <1>3 DEF ReadAnswer
  <2>2. answer.status \in 200..599
    BY <1>2, AnswerIsSome
  <2>3. GoodAnswer
    BY <1>2, <1>3, <2>2 DEF GoodAnswer, IsErrorStatus, Understood
  <2> QED BY <1>1, <1>2, <2>1, <2>3, SuccessInv
<1>4. CASE ~Understood(answer.body)
  <2>1. Failed(ClientError(<<Ctx("root", answer.body)>>,
                           <<Ctx("client", BodySource(answer.body))>>, "Internal"))
    BY <1>4 DEF ReadAnswer
  <2>2. answer.body \in BodyKinds
    BY <1>2, HttpAssumption DEF Answers
  <2>3. /\ answer.body \in Words /\ BodySource(answer.body) \in Words
        /\ "root" \in Words /\ "client" \in Words
    BY <2>2 DEF BodyKinds, Words, BodySource
  <2>4. /\ <<Ctx("root", answer.body)>> \in Seq(Context)
        /\ <<Ctx("client", BodySource(answer.body))>> \in Seq(Context)
    BY <2>3, CtxIsContext, FewLines
  <2>5. "Internal" \in ErrorKinds /\ "Internal" # "MalformedInput"
    BY DEF ErrorKinds
  <2>6. ~GoodAnswer
    BY <1>2, <1>4 DEF GoodAnswer, Understood
  <2> QED BY <1>1, <2>1, <2>4, <2>5, <2>6, FailedInv
<1> QED BY <1>3, <1>4

\* The Timeout in lib.rs.
LEMMA DroppedInv == ASSUME HttpInv, Dropped PROVE HttpInv'
<1>1. /\ stage' = "done" /\ result' = "dropped"
      /\ UNCHANGED <<job, written, processed, sign, answer>>
  BY DEF Dropped, Resolve
<1>2. Shape' /\ Progress' /\ Signed'
  BY <1>1 DEF HttpInv, Shape, Progress, Signed
<1>3. MalformedIsUnsent' /\ LogLevelIsHarmless'
  BY <1>1 DEF MalformedIsUnsent, LogLevelIsHarmless
<1> QED BY <1>2, <1>3 DEF HttpInv

\* Every step of an attempt keeps the invariant.
LEMMA HttpStep == HttpInv /\ [HttpNext]_httpVars => HttpInv'
<1> SUFFICES ASSUME HttpInv, [HttpNext]_httpVars PROVE HttpInv'
  OBVIOUS
<1>1. CASE UNCHANGED httpVars
  BY <1>1 DEF httpVars, HttpInv, Shape, Progress, Signed, IsSecretKey,
              MalformedIsUnsent, LogLevelIsHarmless, GoodAnswer, IsErrorStatus
<1>2. CASE HttpNext
  BY <1>2, CreateSignInv, BuildRequestInv, ExchangeInv, ExchangeFailsInv,
     AnswerArrivesInv, CheckStatusInv, ReadAnswerInv, DroppedInv DEF HttpNext
<1> QED BY <1>1, <1>2

\* The invariant of an attempt (client/*.rs).
THEOREM HttpInvariant == HttpSpec => []HttpInv
<1> QED BY HttpInitInv, HttpStep, PTL DEF HttpSpec

(***************************************************************************)
(* For any statuses and bodies of the answer: an attempt counts as a       *)
(* success only if the remote service processed it, or redirected it.      *)
(***************************************************************************)
THEOREM SuccessIsAlwaysProcessed == HttpSpec => []SuccessIsProcessed
<1>1. ASSUME HttpInv PROVE SuccessIsProcessed
  <2> SUFFICES ASSUME result = "ok" PROVE processed = 1 \/ answer.status \in 300..399
    BY DEF SuccessIsProcessed
  <2>1. answer \in Answers /\ ~IsErrorStatus(answer.status)
    BY <1>1 DEF HttpInv, Shape, Progress
  <2>2. answer.status \in 200..599
    BY <2>1, AnswerIsSome
  <2>3. answer.status \in 200..299 \/ answer.status \in 300..399
    BY <2>1, <2>2 DEF IsErrorStatus
  <2> QED BY <1>1, <2>3 DEF HttpInv, Progress
<1> QED BY <1>1, HttpInvariant, PTL

(***************************************************************************)
(* For any text the key is configured to: no callback leaves the process   *)
(* that is not signed with a secret key.                                   *)
(***************************************************************************)
THEOREM OnlySignedEverLeaves == HttpSpec => []OnlySignedLeaves
<1>1. HttpInv => OnlySignedLeaves
  BY DEF HttpInv, Signed, OnlySignedLeaves
<1> QED BY <1>1, HttpInvariant, PTL

\* Nothing that is called malformed was sent (the three clients).
THEOREM MalformedIsAlwaysUnsent == HttpSpec => []MalformedIsUnsent
<1>1. HttpInv => MalformedIsUnsent
  BY DEF HttpInv
<1> QED BY <1>1, HttpInvariant, PTL

(***************************************************************************)
(* For any statuses and bodies: the log level changes the end of an        *)
(* answered attempt in the one case that LogLevelIsHarmless names.         *)
(***************************************************************************)
THEOREM LogLevelIsAlwaysHarmless == HttpSpec => []LogLevelIsHarmless
<1>1. HttpInv => LogLevelIsHarmless
  BY DEF HttpInv
<1> QED BY <1>1, HttpInvariant, PTL

-----------------------------------------------------------------------------
(* Which key signs.                                                        *)

\* Keys are configured as texts (config.rs).
LEMMA KeyIsText == ASSUME HttpInv PROVE job.key \in Seq(STRING)
BY HttpAssumption DEF HttpInv, Shape, Jobs

\* A prefix, element by element.
LEMMA PrefixByElements ==
  ASSUME NEW S, NEW s \in Seq(S), NEW t \in Seq(S), Len(s) <= Len(t),
         \A i \in 1..Len(s) : s[i] = t[i]
  PROVE  IsPrefix(s, t)
<1> DEFINE n == Len(s)
<1>1. n \in Nat /\ \A i \in 1..n : s[i] \in S /\ t[i] \in S
  BY ElementOfSeq
<1>2. /\ SubSeq(s, 1, n) \in Seq(S) /\ SubSeq(t, 1, n) \in Seq(S)
      /\ Len(SubSeq(s, 1, n)) = n /\ Len(SubSeq(t, 1, n)) = n
      /\ \A i \in 1..n : SubSeq(s, 1, n)[i] = s[i] /\ SubSeq(t, 1, n)[i] = t[i]
  BY <1>1, SubSeqProperties
<1>3. SubSeq(s, 1, n) = SubSeq(t, 1, n)
  BY <1>1, <1>2, SeqEqual
<1> QED BY <1>3 DEF IsPrefix

(***************************************************************************)
(* Whatever the key is configured to: a callback is signed with its        *)
(* digits, all of them but for one too many (utils.rs, callback/mod.rs).   *)
(***************************************************************************)
THEOREM KeyDigitsAlwaysSign == HttpSpec => []KeyDigitsSign
<1>1. ASSUME HttpInv PROVE KeyDigitsSign
  <2> DEFINE ds == DigitsOf(job.key)
             lower == [k \in DOMAIN ds |-> Chars[DigitValue(ds[k]) + 1]]
             hex == ToHex(sign)
             C == {Chars[v] : v \in 1..16}
             n == Len(ds) \div 2
  <2> SUFFICES ASSUME sign # <<>>
               PROVE  IsPrefix(hex, lower) /\ Len(lower) \in {2 * KeyLength, 2 * KeyLength + 1}
    BY DEF KeyDigitsSign
  <2>1. sign = ParseHex(job.key) /\ Len(sign) = KeyLength
    BY <1>1 DEF HttpInv, Signed, IsSecretKey
  <2>2. ds \in Seq(HexDigits) /\ Len(ds) \in Nat /\ DOMAIN ds = 1..Len(ds)
    BY <1>1, KeyIsText, DigitsType
  <2>3. Len(sign) = n
    BY <1>1, <2>1, KeyIsText, BytesOfDigits
  <2>4. n = KeyLength /\ n \in Nat /\ Len(ds) \in {2 * n, 2 * n + 1}
    BY <2>1, <2>2, <2>3, Halves
  <2>5. hex = [j \in 1..(2 * n) |-> Chars[DigitValue(ds[j]) + 1]]
    BY <1>1, <2>1, KeyIsText, HexRoundTrip
  <2>6. \A j \in 1..Len(ds) : Chars[DigitValue(ds[j]) + 1] \in C
    <3> TAKE j \in 1..Len(ds)
    <3> DEFINE v == DigitValue(ds[j])
    <3>1. v \in 0..15
      BY <2>2, ElementOfSeq, DigitValueType
    <3> HIDE DEF v
    <3>2. v + 1 \in 1..16
      BY <3>1
    <3> QED BY <3>2 DEF v
  <2>7. lower = [j \in 1..Len(ds) |-> lower[j]] /\ \A j \in 1..Len(ds) : lower[j] \in C
    BY <2>2, <2>6
  <2>8. hex = [j \in 1..(2 * n) |-> lower[j]]
    <3>1. \A j \in 1..(2 * n) : j \in DOMAIN ds
      BY <2>2, <2>4
    <3> QED BY <2>5, <3>1
  <2> HIDE DEF ds, C, n, hex, lower
  <2>9. lower \in Seq(C) /\ Len(lower) = Len(ds)
    BY <2>2, <2>7
  <2>10. /\ hex \in Seq(C) /\ Len(hex) = 2 * n /\ Len(hex) <= Len(lower)
         /\ \A i \in 1..Len(hex) : hex[i] = lower[i]
    <3>1. 2 * n \in Nat /\ 2 * n <= Len(ds)
      <4>1. n \in Nat /\ Len(ds) \in {2 * n, 2 * n + 1}
        BY <2>4
      <4> QED BY ONLY <4>1
    <3> DEFINE m == 2 * n
    <3> HIDE DEF m
    <3>2. m \in Nat /\ m <= Len(ds) /\ hex = [j \in 1..m |-> lower[j]]
      BY <2>8, <3>1 DEF m
    <3>3. hex \in Seq(C) /\ Len(hex) = m /\ \A i \in 1..m : hex[i] = lower[i]
      <4>1. \A j \in 1..m : lower[j] \in C
        BY <2>2, <2>7, <3>2
      <4> QED BY <3>2, <4>1
    <3> QED BY <2>9, <3>2, <3>3 DEF m
  <2>11. IsPrefix(hex, lower)
    BY <2>9, <2>10, PrefixByElements
  <2> QED BY <2>4, <2>9, <2>11
<1> QED BY <1>1, HttpInvariant, PTL

\* Bytes that are the same are made of the same digits.
LEMMA NibblesAreUnique ==
  ASSUME NEW a \in 0..15, NEW b \in 0..15, NEW c \in 0..15, NEW d \in 0..15,
         16 * a + b = 16 * c + d
  PROVE  a = c /\ b = d
OBVIOUS

\* The digits u[1], ..., u[2K] make the K bytes of meant, and u[0], ..., u[2K - 1]
\* those of got; u[0] is the 0 of a prefix 0x.
Shifted(meant, got, K) ==
  \E u \in [0..(2 * K) -> 0..15] :
     /\ u[0] = 0
     /\ \A k \in 1..K : /\ meant[k] = 16 * u[2 * k - 1] + u[2 * k]
                        /\ got[k] = 16 * u[2 * k - 2] + u[2 * k - 1]

\* A text with 2K digits, and the same text behind a prefix 0x.
LEMMA ShiftedBytes ==
  ASSUME NEW D, NEW t \in Seq(D), "0" \in D, "x" \in D, NEW K \in Nat \ {0},
         Len(DigitsOf(<<"0", "x">> \o t)) = 2 * K + 1
  PROVE  /\ Len(ParseHex(t)) = K /\ Len(ParseHex(<<"0", "x">> \o t)) = K
         /\ Shifted(ParseHex(t), ParseHex(<<"0", "x">> \o t), K)
<1> DEFINE p == <<"0", "x">> \o t
           e == DigitsOf(t)
           ds == DigitsOf(p)
           u == [j \in 0..(2 * K) |-> DigitValue(ds[j + 1])]
<1>1. e \in Seq(HexDigits) /\ ds = <<"0">> \o e /\ <<"0">> \in Seq(HexDigits)
  <2>1. "0" \in HexDigits
    BY DEF HexDigits, Chars
  <2>2. <<"0">> \in Seq(HexDigits)
    BY <2>1
  <2>3. ds = <<"0">> \o e
    BY PrefixedDigits
  <2> QED BY <2>2, <2>3, DigitsType
<1>2. p \in Seq(D)
  <2>1. <<"0", "x">> \in Seq(D)
    OBVIOUS
  <2> QED BY <2>1, ConcatProperties
<1>3. ds \in Seq(HexDigits) /\ Len(ds) = 2 * K + 1
  BY <1>2, DigitsType
<1>4. /\ Len(e) = 2 * K /\ ds[1] = "0"
      /\ \A j \in 1..(2 * K) : ds[j + 1] = e[j]
  <2> DEFINE zero == <<"0">>
  <2>1. zero \in Seq(HexDigits) /\ Len(zero) = 1 /\ zero[1] = "0"
    BY <1>1
  <2> HIDE DEF zero, ds, e
  <2>2. ds = zero \o e
    BY <1>1 DEF zero
  <2> QED BY <1>1, <1>3, <2>1, <2>2, ConcatProperties
<1> HIDE DEF e, ds
<1>5. u \in [0..(2 * K) -> 0..15] /\ u[0] = 0
  <2>1. ASSUME NEW j \in 0..(2 * K) PROVE DigitValue(ds[j + 1]) \in 0..15
    <3>1. j + 1 \in 1..Len(ds)
      BY <1>3
    <3> QED BY <1>3, <3>1, ElementOfSeq, DigitValueType
  <2>2. u[0] = DigitValue(ds[1])
    OBVIOUS
  <2> QED BY <1>4, <2>1, <2>2, ZeroValue
<1>6. \A j \in 1..(2 * K) : DigitValue(e[j]) = u[j] /\ DigitValue(ds[j]) = u[j - 1]
  <2> TAKE j \in 1..(2 * K)
  <2>1. ds[j + 1] = e[j] /\ j \in 0..(2 * K)
    BY <1>4
  <2>2. j - 1 \in 0..(2 * K) /\ (j - 1) + 1 = j
    OBVIOUS
  <2>3. u[j - 1] = DigitValue(ds[(j - 1) + 1])
    BY <2>2
  <2> QED BY <2>1, <2>2, <2>3
<1> HIDE DEF u
<1>7. (2 * K) \div 2 = K /\ (2 * K + 1) \div 2 = K
  OBVIOUS
<1>8. /\ Len(ParseHex(t)) = K /\ Len(ParseHex(p)) = K
      /\ \A k \in 1..K :
           /\ ParseHex(t)[k] = 16 * DigitValue(e[2 * k - 1]) + DigitValue(e[2 * k])
           /\ ParseHex(p)[k] = 16 * DigitValue(ds[2 * k - 1]) + DigitValue(ds[2 * k])
  <2>1. /\ Len(ParseHex(t)) = K
        /\ \A k \in 1..K :
             ParseHex(t)[k] = 16 * DigitValue(e[2 * k - 1]) + DigitValue(e[2 * k])
    BY <1>4, <1>7, BytesOfDigits DEF e
  <2>2. /\ Len(ParseHex(p)) = K
        /\ \A k \in 1..K :
             ParseHex(p)[k] = 16 * DigitValue(ds[2 * k - 1]) + DigitValue(ds[2 * k])
    BY <1>2, <1>3, <1>7, BytesOfDigits DEF ds
  <2> QED BY <2>1, <2>2
<1> HIDE DEF p
<1>9. ASSUME NEW k \in 1..K
      PROVE  /\ ParseHex(t)[k] = 16 * u[2 * k - 1] + u[2 * k]
             /\ ParseHex(p)[k] = 16 * u[2 * k - 2] + u[2 * k - 1]
  <2>1. /\ 2 * k - 1 \in 1..(2 * K) /\ 2 * k \in 1..(2 * K)
        /\ (2 * k - 1) - 1 = 2 * k - 2
    OBVIOUS
  <2>2. /\ DigitValue(e[2 * k - 1]) = u[2 * k - 1] /\ DigitValue(e[2 * k]) = u[2 * k]
        /\ DigitValue(ds[2 * k - 1]) = u[2 * k - 2] /\ DigitValue(ds[2 * k]) = u[2 * k - 1]
    BY <1>6, <2>1
  <2> QED BY <1>8, <2>2
<1> QED BY <1>5, <1>8, <1>9 DEF p, Shifted

\* A key is not the key that was meant unless that is zero, and is zero itself
\* only if all that was meant is in the last digit.
LEMMA ShiftedKey ==
  ASSUME NEW K \in Nat \ {0}, NEW meant, NEW got, Shifted(meant, got, K)
  PROVE  /\ meant = got => \A k \in 1..K : meant[k] = 0
         /\ (\A k \in 1..K : got[k] = 0) =>
              \A k \in 1..K : meant[k] = 0 \/ (k = K /\ meant[k] < 16)
<1> PICK u \in [0..(2 * K) -> 0..15] :
      /\ u[0] = 0
      /\ \A k \in 1..K : /\ meant[k] = 16 * u[2 * k - 1] + u[2 * k]
                         /\ got[k] = 16 * u[2 * k - 2] + u[2 * k - 1]
  BY DEF Shifted
<1>1. \A k \in 1..K : u[2 * k - 2] \in 0..15 /\ u[2 * k - 1] \in 0..15 /\ u[2 * k] \in 0..15
  <2> TAKE k \in 1..K
  <2>1. 2 * k - 2 \in 0..(2 * K) /\ 2 * k - 1 \in 0..(2 * K) /\ 2 * k \in 0..(2 * K)
    OBVIOUS
  <2> QED BY <2>1
<1>2. ASSUME meant = got, NEW k \in 1..K
      PROVE  meant[k] = 0
  <2>1. \A i \in 1..K : u[2 * i - 1] = u[2 * i - 2] /\ u[2 * i] = u[2 * i - 1]
    <3> TAKE i \in 1..K
    <3>1. 16 * u[2 * i - 1] + u[2 * i] = 16 * u[2 * i - 2] + u[2 * i - 1]
      BY <1>2
    <3> DEFINE a == u[2 * i - 1]
               b == u[2 * i]
               c == u[2 * i - 2]
    <3>2. a \in 0..15 /\ b \in 0..15 /\ c \in 0..15 /\ 16 * a + b = 16 * c + a
      BY <1>1, <3>1
    <3> HIDE DEF a, b, c
    <3>3. a = c /\ b = a
      BY <3>2, NibblesAreUnique
    <3> QED BY <3>3 DEF a, b, c
  <2> DEFINE N == {i \in Nat : i <= K => u[2 * i] = 0}
  <2>2. 0 \in N
    OBVIOUS
  <2>3. ASSUME NEW i \in Nat, i \in N PROVE i + 1 \in N
    <3> SUFFICES ASSUME i + 1 <= K PROVE u[2 * (i + 1)] = 0
      OBVIOUS
    <3>1. u[2 * i] = 0
      BY <2>3
    <3> DEFINE j == i + 1
    <3>2. j \in 1..K /\ 2 * j - 2 = 2 * i
      OBVIOUS
    <3> HIDE DEF j
    <3>3. u[2 * j] = 0
      BY <2>1, <3>1, <3>2
    <3> QED BY <3>3 DEF j
  <2> HIDE DEF N
  <2>4. Nat \subseteq N
    BY <2>2, <2>3, SetInduction
  <2>5. u[2 * k] = 0
    BY <2>4 DEF N
  <2>6. u[2 * k - 1] = 0
    BY <2>1, <2>5
  <2> QED BY <2>5, <2>6
<1>3. ASSUME \A k \in 1..K : got[k] = 0, NEW k \in 1..K
      PROVE  meant[k] = 0 \/ (k = K /\ meant[k] < 16)
  <2>1. \A i \in 1..K : u[2 * i - 2] = 0 /\ u[2 * i - 1] = 0
    <3> TAKE i \in 1..K
    <3> DEFINE a == u[2 * i - 1]
               c == u[2 * i - 2]
    <3>1. a \in 0..15 /\ c \in 0..15 /\ 16 * c + a = 0
      BY <1>1, <1>3
    <3> HIDE DEF a, c
    <3>2. a = 0 /\ c = 0
      BY <3>1
    <3> QED BY <3>2 DEF a, c
  <2>2. meant[k] = u[2 * k] /\ u[2 * k] \in 0..15
    BY <1>1, <2>1
  <2>3. CASE k = K
    BY <2>2, <2>3
  <2>4. CASE k # K
    <3>1. k + 1 \in 1..K /\ 2 * (k + 1) - 2 = 2 * k
      BY <2>4
    <3>2. u[2 * k] = 0
      BY <2>1, <3>1
    <3> QED BY <2>2, <3>2
  <2> QED BY <2>3, <2>4
<1> QED BY <1>2, <1>3

-----------------------------------------------------------------------------
(* What the log tells.                                                     *)

\* A backtrace without a line of the other crate: with lines it adds nothing,
\* without it adds the headline (utils.rs).
LEMMA NoRelevantFrame == RelevantBacktrace(BacktraceText) \in {<<>>, <<Header>>}
<1>1. CASE job.backtrace = "off"
  <2> DEFINE text == <<At>>
             lines == Tail(text)
             symbols == [k \in 1..((Len(lines) + 1) \div 2) |-> lines[2 * k - 1]]
  <2>1. lines = <<>>
    OBVIOUS
  <2>2. symbols = <<>>
    <3>1. (Len(lines) + 1) \div 2 = 0
      BY <2>1
    <3> QED BY <3>1
  <2>3. Relevant(symbols) = <<>>
    BY <2>2, KeepEmpty DEF Relevant
  <2> HIDE DEF symbols
  <2>4. RelevantBacktrace(text) = <<Header>> \o <<>>
    BY <2>1, <2>3 DEF RelevantBacktrace, symbols
  <2>5. <<Header>> \o <<>> = <<Header>>
    OBVIOUS
  <2> QED BY <1>1, <2>4, <2>5 DEF BacktraceText
<1>2. CASE job.backtrace # "off"
  <2> DEFINE own == Ctx("frame", OwnCrate)
             other == Ctx("frame", "futures")
             text == <<At, own, At, other, At>>
             lines == Tail(text)
             symbols == [k \in 1..((Len(lines) + 1) \div 2) |-> lines[2 * k - 1]]
             D == {own, other}
  <2>1. own.name # FilteredCrate /\ other.name # FilteredCrate
    BY DEF Ctx, OwnCrate, FilteredCrate
  <2> HIDE DEF own, other
  <2>2. lines = <<own, At, other, At>> /\ Len(lines) = 4 /\ lines # <<>>
    OBVIOUS
  <2>3. symbols = <<own, other>>
    <3>1. (Len(lines) + 1) \div 2 = 2
      BY <2>2
    <3>2. symbols = [k \in 1..2 |-> lines[2 * k - 1]]
      BY <3>1
    <3>3. lines[1] = own /\ lines[3] = other
      BY <2>2
    <3>4. symbols \in Seq({lines[1], lines[3]}) /\ Len(symbols) = 2
      BY <3>2
    <3>5. symbols[1] = own /\ symbols[2] = other
      BY <3>2, <3>3
    <3> HIDE DEF symbols
    <3> QED BY <3>4, <3>5
  <2>4. <<own, other>> \in Seq(D)
    OBVIOUS
  <2>5. Relevant(<<own, other>>) = <<>>
    <3> DEFINE q == <<own, other>>
               R == {line \in ToSet(q) : line.name = FilteredCrate}
    <3>1. D \cap R = {} /\ q \in Seq(D)
      BY <2>1, <2>4
    <3> HIDE DEF q, R, D
    <3>2. Keep(q, R) = <<>>
      BY <3>1, KeepNone
    <3> QED BY <3>2 DEF Relevant, q, R
  <2> HIDE DEF symbols, lines
  <2>6. RelevantBacktrace(text) = <<>> \o <<>>
    BY <2>2, <2>3, <2>5 DEF RelevantBacktrace, symbols, lines
  <2>7. <<>> \o <<>> = <<>>
    OBVIOUS
  <2>8. BacktraceText = text
    BY <1>2 DEF BacktraceText, own, other
  <2> QED BY <2>6, <2>7, <2>8
<1> QED BY <1>1, <1>2

\* The layers that are the log's own are not those of errors.
LEMMA ContextIsLine ==
  /\ Context \subseteq Line /\ Header \in Line /\ Header.layer = "log"
  /\ \A c \in Context : c \in Line /\ c.layer \notin {"log", "frame"}
<1>1. "log" \notin Words /\ "frame" \notin Words /\ "Relevant backtrace:" \in Words
  BY DEF Words, FilteredCrate, OwnCrate
<1> HIDE DEF Words
<1>2. Header \in Line /\ Header.layer = "log"
  BY <1>1 DEF Header, Ctx, Line
<1> QED BY <1>1, <1>2 DEF Context, Line

\* A chain of contexts, and at most a headline behind it: the filter of
\* LogTellsTheCause gives the chain.
LEMMA ChainOfLog ==
  ASSUME NEW err \in Seq(Context), NEW end \in {<<>>, <<Header>>}
  PROVE  LET all == err \o end IN
           /\ all \in Seq(Line)
           /\ \A i \in DOMAIN all : all[i].layer # "frame"
           /\ \A i \in 1..Len(err) : err[i] \in ToSet(all)
           /\ Keep(all, {line \in ToSet(all) : line.layer \notin {"log", "frame"}}) = err
<1> DEFINE all == err \o end
           S == {line \in ToSet(all) : line.layer \notin {"log", "frame"}}
<1>1. err \in Seq(Line) /\ end \in Seq({Header}) /\ end \in Seq(Line)
  <2>1. Context \subseteq Line /\ {Header} \subseteq Line
    BY ContextIsLine
  <2> HIDE DEF Line, Context, Header
  <2>2. <<>> \in Seq({Header}) /\ <<Header>> \in Seq({Header})
    OBVIOUS
  <2>3. end \in Seq({Header})
    BY <2>2
  <2> QED BY <2>1, <2>3, SeqMonotonic
<1> HIDE DEF Line
<1>2. /\ all \in Seq(Line) /\ Len(all) = Len(err) + Len(end)
      /\ \A i \in 1..Len(all) : all[i] = IF i <= Len(err) THEN err[i] ELSE end[i - Len(err)]
      /\ DOMAIN all = 1..Len(all) /\ Len(err) \in Nat /\ Len(end) \in Nat
  BY <1>1, ConcatProperties
<1> HIDE DEF all
<1>3. \A i \in 1..Len(err) : err[i] \in Context /\ err[i] = all[i] /\ i \in DOMAIN all
  <2> TAKE i \in 1..Len(err)
  <2>1. i \in 1..Len(all) /\ i <= Len(err)
    BY <1>2
  <2> QED BY <1>2, <2>1, ElementOfSeq
<1>4. \A i \in 1..Len(err) : err[i] \in ToSet(all) /\ err[i] \in S
  BY <1>3, ContextIsLine DEF ToSet
<1>5. \A i \in DOMAIN all : all[i].layer # "frame"
  <2> TAKE i \in DOMAIN all
  <2>1. CASE i <= Len(err)
    <3>1. i \in 1..Len(err)
      BY <1>2, <2>1
    <3> QED BY <1>3, <3>1, ContextIsLine
  <2>2. CASE ~(i <= Len(err))
    <3>1. i - Len(err) \in 1..Len(end)
      BY <1>2, <2>2
    <3>2. end[i - Len(err)] = Header
      BY <1>1, <3>1, ElementOfSeq
    <3> QED BY <1>2, <2>2, <3>2, ContextIsLine
  <2> QED BY <2>1, <2>2
<1>6. err \in Seq(S)
  <2>1. err = [i \in 1..Len(err) |-> err[i]] /\ Len(err) \in Nat
    BY <1>2
  <2> HIDE DEF S
  <2> QED BY <1>4, <2>1
<1>7. Keep(err, S) = err
  <2> HIDE DEF S
  <2> QED BY <1>6, KeepAll
<1>8. Keep(end, S) = <<>>
  <2>1. {Header} \cap S = {}
    BY ContextIsLine
  <2> HIDE DEF S
  <2> QED BY <1>1, <2>1, KeepNone
<1>9. Keep(all, S) = Keep(err, S) \o Keep(end, S)
  <2> HIDE DEF S
  <2> QED BY <1>1, KeepConcat DEF all
<1>10. Keep(all, S) = err
  BY <1>1, <1>7, <1>8, <1>9, ConcatEmptySeq
<1> QED BY <1>2, <1>4, <1>5, <1>10 DEF all

\* What is logged of an attempt that fails with the error e of a client.
LEMMA FailedTells ==
  ASSUME NEW e \in Seq(Context), e # <<>>, NEW sources \in Seq(Context),
         NEW kind \in ErrorKinds, Failed(ClientError(e, sources, kind)),
         UNCHANGED <<job, answer>>, e[1].layer \in {"root", "http"},
         (e[1] = Ctx("http", "Server")) <=> Refused,
         Refused => \E i \in 1..Len(e) : e[i] = Ctx("http kind", StatusKind(answer.status))
  PROVE  /\ log' \in Seq(Line) /\ \A i \in DOMAIN log' : log'[i].layer # "frame"
         /\ LogTellsTheCause'
<1> DEFINE err == EctxConvert(ClientError(e, sources, kind), <<>>)
           lines == Keep(log', {line \in ToSet(log') : line.layer \notin {"log", "frame"}})
<1>1. /\ err \in Seq(Context) /\ Len(err) \in Nat \ {0} /\ Len(e) <= Len(err)
      /\ \A i \in 1..Len(e) : err[i] = e[i]
      /\ Last(err) = Ctx("service", kind) /\ Kind(err).name = kind
  <2>1. kind \in Words
    BY KindsAreWords
  <2>2. e \in Seq(Context) /\ sources \in Seq(Context)
    OBVIOUS
  <2> QED BY ONLY <2>1, <2>2, ServiceError
<1>2. result' = kind /\ log' = FormatError(err, BacktraceText)
  BY <1>1 DEF Failed
<1> HIDE DEF err
<1> DEFINE end == RelevantBacktrace(BacktraceText)
<1>3. log' = err \o end
  BY <1>1, <1>2, LogKeepsTheChain
<1>4. end \in {<<>>, <<Header>>}
  BY NoRelevantFrame
<1> HIDE DEF end
<1>5. /\ log' \in Seq(Line) /\ \A i \in DOMAIN log' : log'[i].layer # "frame"
      /\ \A i \in 1..Len(err) : err[i] \in ToSet(log')
      /\ lines = err
  <2> DEFINE all == err \o end
  <2>1. /\ all \in Seq(Line) /\ \A i \in DOMAIN all : all[i].layer # "frame"
        /\ \A i \in 1..Len(err) : err[i] \in ToSet(all)
        /\ Keep(all, {line \in ToSet(all) : line.layer \notin {"log", "frame"}}) = err
    BY <1>1, <1>4, ChainOfLog
  <2>2. log' = all
    BY <1>3
  <2> HIDE DEF all
  <2> QED BY <2>1, <2>2
<1>6. 1 \in 1..Len(e) /\ Len(e) \in Nat
  <2>1. Len(e) \in Nat \ {0}
    BY EmptySeq
  <2> QED BY ONLY <2>1
<1>7. err[1] = e[1]
  BY <1>1, <1>6
<1>8. Refused' <=> Refused
  BY DEF Refused
<1>9. Refused => Ctx("http kind", StatusKind(answer.status)) \in ToSet(log')
  <2> SUFFICES ASSUME Refused
               PROVE  Ctx("http kind", StatusKind(answer.status)) \in ToSet(log')
    OBVIOUS
  <2>1. PICK i \in 1..Len(e) : e[i] = Ctx("http kind", StatusKind(answer.status))
    OBVIOUS
  <2>2. i \in 1..Len(err) /\ err[i] = e[i]
    <3>1. Len(e) \in Nat /\ Len(err) \in Nat /\ Len(e) <= Len(err)
      BY <1>1, <1>6
    <3>2. i \in 1..Len(err)
      BY ONLY <3>1, i \in 1..Len(e)
    <3> QED BY <1>1, <3>2
  <2> QED BY <1>5, <2>1, <2>2
<1>10. LogTellsTheCause'
  <2>1. /\ (lines[1] = Ctx("http", "Server")) <=> Refused'
        /\ lines[1].layer \in {"root", "http"}
        /\ Last(lines) = Ctx("service", result')
    BY <1>1, <1>2, <1>5, <1>7, <1>8
  <2>2. Refused' => Ctx("http kind", StatusKind(answer'.status)) \in ToSet(log')
    BY <1>8, <1>9
  <2> QED BY <2>1, <2>2 DEF LogTellsTheCause
<1> QED BY <1>5, <1>10

\* The clients have two reasons to call their input malformed.
MalformedHasReason ==
  result = "MalformedInput" =>
    \/ job.uri = "bad"
    \/ job.client = "callback" /\ ~IsSecretKey(ParseHex(job.key))

\* What is known of the log and of the verdict on the input, on top of HttpInv.
LogInv ==
  /\ sign \in Seq(0..255) /\ log \in Seq(Line)
  /\ \A i \in DOMAIN log : log[i].layer # "frame"
  /\ LogTellsTheCause /\ MalformedHasReason

\* Nothing is logged before a client is called.
LEMMA LogInitInv == HttpInit => LogInv
<1> SUFFICES ASSUME HttpInit PROVE LogInv
  OBVIOUS
<1>1. sign = <<>> /\ log = <<>> /\ result = "none"
  BY DEF HttpInit
<1>2. sign \in Seq(0..255) /\ log \in Seq(Line) /\ DOMAIN log = {}
  <2> HIDE DEF Line
  <2> QED BY <1>1
<1>3. LogTellsTheCause /\ MalformedHasReason
  BY <1>1 DEF LogTellsTheCause, MalformedHasReason, ErrorKinds
<1> QED BY <1>2, <1>3 DEF LogInv

\* A step that logs nothing.
LEMMA QuietStep ==
  ASSUME LogInv, UNCHANGED <<job, sign, log>>,
         result' = result \/ result' \notin ErrorKinds,
         answer' = answer \/ result' \notin ErrorKinds
  PROVE  LogInv'
<1>1. LogTellsTheCause'
  <2>1. CASE result' \notin ErrorKinds
    BY <2>1 DEF LogTellsTheCause
  <2>2. CASE result' \in ErrorKinds
    BY <2>2 DEF LogInv, LogTellsTheCause, Refused
  <2> QED BY <2>1, <2>2
<1>2. MalformedHasReason'
  BY DEF LogInv, MalformedHasReason, ErrorKinds
<1> QED BY <1>1, <1>2 DEF LogInv

\* A step that fails with the error e of a client.
LEMMA FailedStep ==
  ASSUME LogInv, NEW e \in Seq(Context), e # <<>>, NEW sources \in Seq(Context),
         NEW kind \in ErrorKinds, Failed(ClientError(e, sources, kind)),
         UNCHANGED <<job, sign, answer>>, e[1].layer \in {"root", "http"},
         (e[1] = Ctx("http", "Server")) <=> Refused,
         Refused => \E i \in 1..Len(e) : e[i] = Ctx("http kind", StatusKind(answer.status)),
         kind = "MalformedInput" =>
           \/ job.uri = "bad"
           \/ job.client = "callback" /\ ~IsSecretKey(ParseHex(job.key))
  PROVE  LogInv'
<1>1. /\ log' \in Seq(Line) /\ \A i \in DOMAIN log' : log'[i].layer # "frame"
      /\ LogTellsTheCause'
  BY FailedTells
<1>2. result' = kind
  <2>1. kind \in Words
    BY KindsAreWords
  <2> QED BY <2>1, FailedIsDone
<1>3. MalformedHasReason'
  BY <1>2 DEF MalformedHasReason
<1> QED BY <1>1, <1>3 DEF LogInv

\* An error with one context, and what it begins with.
LEMMA SingleContext ==
  ASSUME NEW layer \in Words, NEW name \in Words
  PROVE  LET e == <<Ctx(layer, name)>> IN
           /\ e \in Seq(Context) /\ e # <<>> /\ Len(e) = 1
           /\ e[1] = Ctx(layer, name) /\ e[1].layer = layer /\ e[1].name = name
<1>1. Ctx(layer, name) \in Context /\ Ctx(layer, name).layer = layer
  BY CtxIsContext DEF Ctx
<1> QED BY <1>1, CtxIsContext, FewLines

\* No cause but the refusal of the remote service looks like one.
LEMMA RootIsNoServer ==
  ASSUME NEW name PROVE Ctx("root", name) # Ctx("http", "Server")
<1>1. Ctx("root", name).layer = "root" /\ Ctx("http", "Server").layer = "http"
  BY DEF Ctx
<1> QED BY <1>1

\* create_sign (client/callback/mod.rs).
LEMMA CreateSignLog == ASSUME HttpInv, LogInv, CreateSign PROVE LogInv'
<1>1. answer = NoAnswer /\ UNCHANGED <<job, answer>> /\ ~Refused /\ job.client = "callback"
  BY DEF CreateSign, HttpInv, Progress, Refused
<1>2. CASE IsSecretKey(ParseHex(job.key))
  <2>1. sign' = ParseHex(job.key) /\ UNCHANGED <<result, log>>
    BY <1>2 DEF CreateSign
  <2>2. sign' \in Seq(0..255)
    BY <2>1, KeyIsText, BytesOfDigits
  <2>3. LogTellsTheCause' /\ MalformedHasReason'
    BY <1>1, <2>1 DEF LogInv, LogTellsTheCause, Refused, MalformedHasReason
  <2> QED BY <2>1, <2>2, <2>3 DEF LogInv
<1>3. CASE ~IsSecretKey(ParseHex(job.key))
  <2> DEFINE root == <<Ctx("root", "secp256k1")>>
             inner == ClientError(root, <<>>, "Internal")
             sources == <<Ctx("client", "Hyper")>>
  <2>1. Failed(ClientError(inner, sources, "MalformedInput")) /\ UNCHANGED sign
    BY <1>3 DEF CreateSign
  <2>2. /\ "root" \in Words /\ "secp256k1" \in Words /\ "client" \in Words
        /\ "Hyper" \in Words /\ "client kind" \in Words /\ "Internal" \in Words
    BY DEF Words
  <2>3. /\ root \in Seq(Context) /\ root # <<>> /\ Len(root) = 1 /\ root[1].layer = "root"
        /\ root[1] # Ctx("http", "Server") /\ sources \in Seq(Context)
    BY <2>2, SingleContext, RootIsNoServer
  <2> DEFINE own == <<Ctx("client kind", "Internal")>>
  <2>4. own \in Seq(Context)
    BY <2>2, SingleContext
  <2>5. inner = Ectx(root, own)
    <3>1. <<>> \o own = own
      BY <2>4, ConcatEmptySeq
    <3> QED BY <3>1 DEF ClientError
  <2> HIDE DEF root, own, inner, sources
  <2>6. inner \in Seq(Context) /\ Len(inner) = Len(root) + 1 + Len(own) /\ inner[1] = root[1]
    <3>1. root \in Seq(Context) /\ own \in Seq(Context) /\ 1 \in 1..Len(root)
      BY <2>3, <2>4
    <3> QED BY ONLY <2>5, <3>1, EctxKeeps
  <2>7. inner # <<>>
    <3>1. Len(own) \in Nat /\ Len(inner) = 2 + Len(own)
      BY <2>3, <2>4, <2>6
    <3> QED BY ONLY <3>1, EmptySeq
  <2>8. "MalformedInput" \in ErrorKinds
    BY DEF ErrorKinds
  <2> QED BY <1>1, <1>3, <2>1, <2>3, <2>6, <2>7, <2>8, FailedStep
<1> QED BY <1>2, <1>3

\* Request::builder, in the three clients.
LEMMA BuildRequestLog == ASSUME HttpInv, LogInv, BuildRequest PROVE LogInv'
<1>1. answer = NoAnswer /\ UNCHANGED <<job, sign, answer>> /\ ~Refused
  BY DEF BuildRequest, HttpInv, Progress, Refused
<1>2. CASE job.uri = "good"
  BY <1>1, <1>2, QuietStep DEF BuildRequest, Proceed
<1>3. CASE job.uri # "good"
  <2> DEFINE root == <<Ctx("root", "http")>>
             sources == <<Ctx("client", "Hyper")>>
  <2>1. Failed(ClientError(root, sources, "MalformedInput"))
    BY <1>3 DEF BuildRequest
  <2>2. "root" \in Words /\ "http" \in Words /\ "client" \in Words /\ "Hyper" \in Words
    BY DEF Words
  <2>3. /\ root \in Seq(Context) /\ root # <<>> /\ root[1].layer = "root"
        /\ root[1] # Ctx("http", "Server") /\ sources \in Seq(Context)
    BY <2>2, SingleContext, RootIsNoServer
  <2>4. "MalformedInput" \in ErrorKinds /\ job.uri = "bad"
    BY <1>3 DEF ErrorKinds, HttpInv, Shape, Jobs
  <2> HIDE DEF root, sources
  <2> QED BY <1>1, <2>1, <2>3, <2>4, FailedStep
<1> QED BY <1>2, <1>3

\* An error inside of hyper begins with itself (client/http_client/mod.rs).
LEMMA HyperErrorFront ==
  LET e == HttpError(Ctx("root", "hyper"), "Internal") IN
    /\ e \in Seq(Context) /\ e # <<>> /\ e[1].layer = "root" /\ e[1] # Ctx("http", "Server")
<1> DEFINE root == <<Ctx("root", "hyper")>>
           contexts == <<Ctx("http", "Hyper"), Ctx("http kind", "Internal")>>
           e == HttpError(Ctx("root", "hyper"), "Internal")
<1>1. /\ "root" \in Words /\ "hyper" \in Words /\ "http" \in Words /\ "Hyper" \in Words
      /\ "http kind" \in Words /\ "Internal" \in Words
  BY DEF Words
<1>2. /\ root \in Seq(Context) /\ Len(root) = 1 /\ root[1].layer = "root"
      /\ root[1] # Ctx("http", "Server")
  BY <1>1, SingleContext, RootIsNoServer
<1>3. contexts \in Seq(Context)
  BY <1>1, CtxIsContext, FewLines
<1>4. e = Ectx(root, contexts)
  BY DEF HttpError
<1> HIDE DEF root, contexts, e
<1>5. e \in Seq(Context) /\ Len(e) = Len(root) + 1 + Len(contexts) /\ e[1] = root[1]
  <2>1. root \in Seq(Context) /\ contexts \in Seq(Context) /\ 1 \in 1..Len(root)
    BY <1>2, <1>3
  <2> QED BY ONLY <1>4, <2>1, EctxKeeps
<1>6. e # <<>>
  <2>1. Len(contexts) \in Nat /\ Len(e) = 2 + Len(contexts)
    BY <1>2, <1>3, <1>5
  <2> QED BY ONLY <2>1, EmptySeq
<1> QED BY <1>2, <1>5, <1>6 DEF e

\* The exchange with the remote service (client/http_client/mod.rs).
LEMMA ExchangeLog ==
  ASSUME HttpInv, LogInv,
         \/ WriteRequest \/ RemoteProcesses \/ (\E a \in Answers : RemoteAnswers(a))
         \/ ExchangeFails \/ AnswerArrives
  PROVE  LogInv'
<1>1. CASE WriteRequest \/ RemoteProcesses
  BY <1>1, QuietStep DEF WriteRequest, RemoteProcesses
<1>2. ASSUME NEW a \in Answers, RemoteAnswers(a) PROVE LogInv'
  <2>1. result = "none" /\ UNCHANGED <<job, sign, log, result>>
    BY <1>2 DEF RemoteAnswers, HttpInv, Progress
  <2>2. result' \notin ErrorKinds
    BY <2>1 DEF ErrorKinds
  <2> QED BY <2>1, <2>2, QuietStep
<1>3. ASSUME Failed(ClientError(HttpError(Ctx("root", "hyper"), "Internal"), <<>>, "Internal")),
             UNCHANGED <<job, sign, answer>>, ~Refused
      PROVE  LogInv'
  <2> DEFINE e == HttpError(Ctx("root", "hyper"), "Internal")
  <2>1. e \in Seq(Context) /\ e # <<>> /\ e[1].layer = "root" /\ e[1] # Ctx("http", "Server")
    BY HyperErrorFront
  <2>2. "Internal" \in ErrorKinds /\ <<>> \in Seq(Context) /\ "Internal" # "MalformedInput"
    BY DEF ErrorKinds
  <2> HIDE DEF e
  <2>3. Failed(ClientError(e, <<>>, "Internal"))
    BY <1>3 DEF e
  <2> QED BY <1>3, <2>1, <2>2, <2>3, FailedStep
<1>4. CASE ExchangeFails
  <2>1. answer = NoAnswer /\ ~Refused
    BY <1>4 DEF ExchangeFails, Refused
  <2> QED BY <1>3, <1>4, <2>1 DEF ExchangeFails
<1>5. CASE AnswerArrives
  <2>1. CASE job.level = "debug" /\ answer.body = "cut"
    <3>1. ~Refused
      BY <2>1 DEF Refused
    <3> QED BY <1>3, <1>5, <2>1, <3>1 DEF AnswerArrives
  <2>2. CASE ~(job.level = "debug" /\ answer.body = "cut")
    BY <1>5, <2>2, QuietStep DEF AnswerArrives, Proceed
  <2> QED BY <2>1, <2>2
<1> QED BY <1>1, <1>2, <1>4, <1>5

\* An error that the remote service answered with: what it is, and which one
\* (client/http_client/mod.rs).
LEMMA ServerErrorFront ==
  ASSUME NEW s \in Nat
  PROVE  LET e == ServerError(s) IN
           /\ e \in Seq(Context) /\ e # <<>> /\ e[1] = Ctx("http", "Server")
           /\ \E i \in 1..Len(e) : e[i] = Ctx("http kind", StatusKind(s))
<1> DEFINE root == <<Ctx("http", "Server")>>
           kind == Ctx("http kind", StatusKind(s))
           e == ServerError(s)
<1>1. StatusKind(s) \in Words
  <2>1. StatusKind(s) \in {"BadRequest", "Unauthorized", "NotFound", "Internal",
                           "BadGateway", "GatewayTimeout", "UnknownServerError"}
    BY DEF StatusKind
  <2> QED BY <2>1 DEF Words
<1>2. "http" \in Words /\ "Server" \in Words /\ "http kind" \in Words
  BY DEF Words
<1>3. root \in Seq(Context) /\ Len(root) = 1 /\ root[1] = Ctx("http", "Server")
  BY <1>2, SingleContext
<1>4. <<kind>> \in Seq(Context) /\ <<kind>> # <<>> /\ Len(<<kind>>) = 1 /\ Last(<<kind>>) = kind
  BY <1>1, <1>2, SingleContext, CtxIsContext, FewLines
<1>5. e = Ectx(root, <<kind>>)
  BY DEF ServerError
<1> HIDE DEF root, kind, e
<1>6. /\ e \in Seq(Context) /\ Len(e) = Len(root) + 1 + Len(<<kind>>) /\ Last(e) = kind
      /\ e[1] = root[1]
  <2>1. 1 \in 1..Len(root)
    BY <1>3
  <2> QED BY ONLY <1>3, <1>4, <1>5, <2>1, EctxKeeps
<1>7. Len(e) = 3
  BY <1>3, <1>4, <1>6
<1>8. e # <<>> /\ 3 \in 1..Len(e) /\ e[3] = kind
  <2>1. e # <<>> /\ 3 \in 1..Len(e)
    BY ONLY <1>7, EmptySeq
  <2> QED BY <1>6, <1>7, <2>1 DEF Last
<1> QED BY <1>3, <1>6, <1>8 DEF e, kind

\* What the head of an answer is to the clients (client/http_client/mod.rs).
LEMMA CheckStatusLog == ASSUME HttpInv, LogInv, CheckStatus PROVE LogInv'
<1>1. UNCHANGED <<job, sign, answer>>
  BY DEF CheckStatus
<1>2. /\ answer # NoAnswer /\ ~(job.level = "debug" /\ answer.body = "cut")
      /\ answer.status \in 200..599
  BY AnswerIsSome DEF HttpInv, Shape, Progress, CheckStatus
<1>3. CASE IsErrorStatus(answer.status)
  <2> DEFINE e == ServerError(answer.status)
  <2>1. Failed(ClientError(e, <<>>, "Internal"))
    BY <1>3 DEF CheckStatus, KindForClient
  <2>2. Refused /\ answer.status \in Nat
    BY <1>2, <1>3 DEF Refused, IsErrorStatus
  <2>3. /\ e \in Seq(Context) /\ e # <<>> /\ e[1] = Ctx("http", "Server")
        /\ \E i \in 1..Len(e) : e[i] = Ctx("http kind", StatusKind(answer.status))
    BY <2>2, ServerErrorFront
  <2>4. "Internal" \in ErrorKinds /\ <<>> \in Seq(Context) /\ "Internal" # "MalformedInput"
    BY DEF ErrorKinds
  <2> HIDE DEF e
  <2>5. e[1].layer \in {"root", "http"}
    <3>1. Ctx("http", "Server").layer = "http"
      BY DEF Ctx
    <3> QED BY <2>3, <3>1
  <2> QED BY <1>1, <2>1, <2>2, <2>3, <2>4, <2>5, FailedStep
<1>4. CASE ~IsErrorStatus(answer.status)
  <2>1. result' \in {result, "ok"} /\ log' = log
    BY <1>4 DEF CheckStatus, Resolve, Proceed
  <2>2. "ok" \notin ErrorKinds
    BY DEF ErrorKinds
  <2> QED BY <1>1, <2>1, <2>2, QuietStep
<1> QED BY <1>3, <1>4

\* read_body, from_utf8 and from_str, for callbacks and pushes.
LEMMA ReadAnswerLog == ASSUME HttpInv, LogInv, ReadAnswer PROVE LogInv'
<1>1. UNCHANGED <<job, sign, answer>> /\ stage = "reading"
  BY DEF ReadAnswer
<1>2. /\ answer \in Answers /\ answer.status \in 200..599
      /\ ~IsErrorStatus(answer.status)
  BY <1>1, AnswerIsSome DEF HttpInv, Shape, Progress
<1>3. ~Refused
  BY <1>2 DEF Refused, IsErrorStatus
<1>4. CASE Understood(answer.body)
  <2>1. result' = "ok" /\ log' = log
    BY <1>4 DEF ReadAnswer, Resolve
  <2>2. "ok" \notin ErrorKinds
    BY DEF ErrorKinds
  <2> QED BY <1>1, <2>1, <2>2, QuietStep
<1>5. CASE ~Understood(answer.body)
  <2> DEFINE root == <<Ctx("root", answer.body)>>
             sources == <<Ctx("client", BodySource(answer.body))>>
  <2>1. Failed(ClientError(root, sources, "Internal"))
    BY <1>5 DEF ReadAnswer
  <2>2. answer.body \in BodyKinds
    BY <1>2, HttpAssumption DEF Answers
  <2>3. /\ answer.body \in Words /\ BodySource(answer.body) \in Words
        /\ "root" \in Words /\ "client" \in Words
    BY <2>2 DEF BodyKinds, Words, BodySource
  <2>4. /\ root \in Seq(Context) /\ root # <<>> /\ root[1].layer = "root"
        /\ root[1] # Ctx("http", "Server") /\ sources \in Seq(Context)
    BY <2>3, SingleContext, RootIsNoServer
  <2>5. "Internal" \in ErrorKinds /\ "Internal" # "MalformedInput"
    BY DEF ErrorKinds
  <2> HIDE DEF root, sources
  <2> QED BY <1>1, <1>3, <2>1, <2>4, <2>5, FailedStep
<1> QED BY <1>4, <1>5

\* Every step of an attempt keeps what is known of its log.
LEMMA LogStep == HttpInv /\ LogInv /\ [HttpNext]_httpVars => LogInv'
<1> SUFFICES ASSUME HttpInv, LogInv, [HttpNext]_httpVars PROVE LogInv'
  OBVIOUS
<1>1. CASE UNCHANGED httpVars
  BY <1>1, QuietStep DEF httpVars
<1>2. CASE Dropped
  <2>1. UNCHANGED <<job, sign, log>> /\ result' = "dropped"
    BY <1>2 DEF Dropped, Resolve
  <2>2. "dropped" \notin ErrorKinds
    BY DEF ErrorKinds
  <2> QED BY <2>1, <2>2, QuietStep
<1>3. CASE HttpNext
  BY <1>2, <1>3, CreateSignLog, BuildRequestLog, ExchangeLog, CheckStatusLog, ReadAnswerLog
     DEF HttpNext
<1> QED BY <1>1, <1>3

\* The invariant of the log (utils.rs, macros.rs, services/error.rs).
THEOREM LogInvariant == HttpSpec => []LogInv
<1> QED BY LogInitInv, LogStep, HttpInvariant, PTL DEF HttpSpec

\* The types of all that an attempt keeps.
THEOREM HttpTypeCorrect == HttpSpec => []HttpTypeOK
<1>1. HttpInv /\ LogInv => HttpTypeOK
  BY DEF HttpInv, Shape, LogInv, HttpTypeOK
<1> QED BY <1>1, HttpInvariant, LogInvariant, PTL

(***************************************************************************)
(* For any answer and any way an attempt can fail: its log says what went  *)
(* wrong first, which error the remote service answered with if it did,    *)
(* and last what the retry loop was told.                                  *)
(***************************************************************************)
THEOREM LogAlwaysTellsTheCause == HttpSpec => []LogTellsTheCause
<1>1. LogInv => LogTellsTheCause
  BY DEF LogInv
<1> QED BY <1>1, LogInvariant, PTL

(***************************************************************************)
(* No frame of this crate is ever logged, with backtraces on or off: what  *)
(* the run http_backtrace shows for one attempt is so for every one        *)
(* (utils.rs, line 26).                                                    *)
(***************************************************************************)
THEOREM NoFrameIsEverShown == HttpSpec => [](Ctx("frame", OwnCrate) \notin ToSet(log))
<1>1. LogInv => Ctx("frame", OwnCrate) \notin ToSet(log)
  <2>1. Ctx("frame", OwnCrate).layer = "frame"
    BY DEF Ctx
  <2> QED BY <2>1 DEF LogInv, ToSet
<1> QED BY <1>1, LogInvariant, PTL

\* A text with a prefix 0x, taken apart.
LEMMA BehindThePrefix ==
  ASSUME NEW D, NEW key \in Seq(D), IsPrefix(<<"0", "x">>, key)
  PROVE  /\ Tail(Tail(key)) \in Seq(D) /\ key = <<"0", "x">> \o Tail(Tail(key))
         /\ "0" \in D /\ "x" \in D
<1> DEFINE prefix == <<"0", "x">>
           t == Tail(key)
           tt == Tail(t)
<1>1. Len(prefix) = 2 /\ prefix[1] = "0" /\ prefix[2] = "x"
  OBVIOUS
<1>2. Len(key) \in Nat /\ 2 <= Len(key) /\ SubSeq(prefix, 1, 2) = SubSeq(key, 1, 2)
  BY <1>1, LenProperties DEF IsPrefix
<1>3. SubSeq(prefix, 1, 2)[1] = "0" /\ SubSeq(prefix, 1, 2)[2] = "x"
  <2> DEFINE S == {"0", "x"}
  <2>1. \A i \in 1..2 : prefix[i] \in S
    BY <1>1
  <2> HIDE DEF prefix, S
  <2>2. \A i \in 1..(2 - 1 + 1) : SubSeq(prefix, 1, 2)[i] = prefix[1 + i - 1]
    BY <2>1, SubSeqProperties
  <2> QED BY <1>1, <2>2
<1>4. SubSeq(key, 1, 2)[1] = key[1] /\ SubSeq(key, 1, 2)[2] = key[2] /\ key[1] \in D /\ key[2] \in D
  <2>1. \A i \in 1..2 : i \in 1..Len(key)
    BY <1>2
  <2>2. \A i \in 1..2 : key[i] \in D
    BY <2>1, ElementOfSeq
  <2>3. \A i \in 1..(2 - 1 + 1) : SubSeq(key, 1, 2)[i] = key[1 + i - 1]
    BY <2>2, SubSeqProperties
  <2> QED BY <2>2, <2>3
<1>5. key[1] = "0" /\ key[2] = "x" /\ "0" \in D /\ "x" \in D
  BY <1>2, <1>3, <1>4
<1>6. /\ t \in Seq(D) /\ Len(t) = Len(key) - 1
      /\ \A i \in 1..Len(t) : t[i] = key[i + 1]
  <2>1. key # <<>>
    BY <1>2, EmptySeq
  <2> QED BY <2>1, HeadTailProperties
<1> HIDE DEF t
<1>7. /\ tt \in Seq(D) /\ Len(tt) = Len(t) - 1
      /\ \A i \in 1..Len(tt) : tt[i] = t[i + 1]
  <2>1. t # <<>>
    <3>1. Len(t) >= 1
      BY <1>2, <1>6
    <3>2. Len(<<>>) = 0
      BY EmptySeq
    <3> QED BY <3>1, <3>2
  <2> QED BY <1>6, <2>1, HeadTailProperties
<1> HIDE DEF tt
<1>8. prefix \in Seq(D)
  BY <1>5
<1> HIDE DEF prefix
<1>9. /\ prefix \o tt \in Seq(D) /\ Len(prefix \o tt) = Len(key)
      /\ \A i \in 1..Len(key) : (prefix \o tt)[i] = IF i <= 2 THEN prefix[i] ELSE tt[i - 2]
  <2>1. Len(prefix) + Len(tt) = Len(key)
    BY <1>1, <1>2, <1>6, <1>7
  <2>2. /\ prefix \o tt \in Seq(D) /\ Len(prefix \o tt) = Len(prefix) + Len(tt)
        /\ \A i \in 1..(Len(prefix) + Len(tt)) :
             (prefix \o tt)[i] = IF i <= Len(prefix) THEN prefix[i] ELSE tt[i - Len(prefix)]
    BY ONLY <1>7, <1>8, ConcatProperties
  <2>3. Len(prefix) = 2
    BY <1>1
  <2> QED BY ONLY <2>1, <2>2, <2>3
<1>10. ASSUME NEW i \in 1..Len(key) PROVE (prefix \o tt)[i] = key[i]
  <2>1. CASE i <= 2
    <3>1. i = 1 \/ i = 2
      BY <2>1
    <3> QED BY <1>1, <1>5, <1>9, <3>1
  <2>2. CASE ~(i <= 2)
    <3> DEFINE j == i - 2
    <3>1. j \in 1..Len(tt) /\ j + 1 \in 1..Len(t) /\ (j + 1) + 1 = i
      BY <1>2, <1>6, <1>7, <2>2
    <3>2. (prefix \o tt)[i] = tt[j]
      BY <1>9, <2>2
    <3> HIDE DEF j
    <3>3. tt[j] = t[j + 1] /\ t[j + 1] = key[(j + 1) + 1]
      BY <1>6, <1>7, <3>1
    <3> QED BY <3>1, <3>2, <3>3
  <2> QED BY <2>1, <2>2
<1>11. prefix \o tt = key
  BY <1>9, <1>10, SeqEqual
<1> QED BY <1>5, <1>7, <1>11 DEF prefix, tt, t

(***************************************************************************)
(* Whatever a key with a prefix 0x is: no callback is signed with the key  *)
(* that was meant, and none is refused for the key unless it has nothing   *)
(* but its last digit (utils.rs, callback/mod.rs).                         *)
(***************************************************************************)
THEOREM PrefixedKeyIsAlwaysAnother == HttpSpec => []PrefixedKeyIsAnotherKey
<1>1. ASSUME HttpInv, LogInv PROVE PrefixedKeyIsAnotherKey
  <2> DEFINE t == Tail(Tail(job.key))
             meant == ParseHex(t)
             got == ParseHex(job.key)
             K == KeyLength
  <2> SUFFICES ASSUME job.client = "callback", IsPrefix(<<"0", "x">>, job.key),
                      Len(DigitsOf(job.key)) = 2 * K + 1, IsSecretKey(meant)
               PROVE  /\ sign # meant
                      /\ (job.uri = "good" /\ result = "MalformedInput") =>
                           \A k \in 1..K : meant[k] = 0 \/ (k = K /\ meant[k] < 16)
    BY DEF PrefixedKeyIsAnotherKey
  <2>1. job.key \in Seq(STRING) /\ K \in Nat \ {0}
    BY <1>1, KeyIsText, HttpAssumption
  <2>2. /\ t \in Seq(STRING) /\ job.key = <<"0", "x">> \o t
        /\ "0" \in STRING /\ "x" \in STRING
    BY <2>1, BehindThePrefix
  <2>3. Len(meant) = K /\ Len(got) = K /\ Shifted(meant, got, K)
    <3> HIDE DEF t, K
    <3>1. Len(DigitsOf(<<"0", "x">> \o t)) = 2 * K + 1
      BY <2>2
    <3>2. /\ Len(ParseHex(t)) = K /\ Len(ParseHex(<<"0", "x">> \o t)) = K
          /\ Shifted(ParseHex(t), ParseHex(<<"0", "x">> \o t), K)
      BY ONLY <2>1, <2>2, <3>1, ShiftedBytes
    <3> QED BY ONLY <2>2, <3>2 DEF got, meant
  <2>4. DOMAIN meant = 1..K /\ DOMAIN got = 1..K
    <3>1. meant \in Seq(0..255) /\ got \in Seq(0..255)
      BY <2>1, <2>2, BytesOfDigits
    <3> QED BY <2>3, <3>1, LenProperties
  <2> HIDE DEF t, meant, got, K
  <2>5. /\ meant = got => \A k \in 1..K : meant[k] = 0
        /\ (\A k \in 1..K : got[k] = 0) =>
             \A k \in 1..K : meant[k] = 0 \/ (k = K /\ meant[k] < 16)
    BY ONLY <2>1, <2>3, ShiftedKey
  <2>6. PICK k \in 1..K : meant[k] # 0
    BY <2>4 DEF IsSecretKey
  <2>7. meant # got /\ meant # <<>>
    <3>1. DOMAIN meant # {}
      BY <2>4, <2>6
    <3> QED BY <2>5, <2>6, <3>1
  <2>8. sign # meant
    BY <1>1, <2>7 DEF HttpInv, Signed, got
  <2>9. ASSUME job.uri = "good", result = "MalformedInput"
        PROVE  \A i \in 1..K : got[i] = 0
    <3>1. ~IsSecretKey(got)
      BY <1>1, <2>9 DEF LogInv, MalformedHasReason, got
    <3>2. Len(got) = KeyLength
      BY <2>3 DEF K
    <3> QED BY <2>4, <3>1, <3>2 DEF IsSecretKey
  <2> QED BY <2>5, <2>8, <2>9
<1> QED BY <1>1, HttpInvariant, LogInvariant, PTL
=============================================================================
