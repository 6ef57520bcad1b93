---------------------------- MODULE HttpDelivery ----------------------------
(***************************************************************************)
(* One attempt to deliver a notification over HTTP: CallbackClientImpl     *)
(* (client/callback/mod.rs), EmailClientImpl (client/email/mod.rs) and     *)
(* IosClientImpl (client/ios/mod.rs) on top of HttpClientImpl              *)
(* (client/http_client/mod.rs), up to the line in the log when it fails.   *)
(* Notificator knows three ends of a request (RemoteAccept,                *)
(* RemoteAcceptUnusable, RemoteRefuse); here is which answer leads to      *)
(* which.                                                                  *)
(*                                                                         *)
(* The future may be dropped at every point, by the Timeout in lib.rs; a   *)
(* request that was already written may be processed all the same.         *)
(***************************************************************************)
EXTENDS HexCodec, ErrorChain

CONSTANTS
  Statuses,  \* status codes the remote service may answer with
  Bodies,    \* kinds of response bodies, see below
  Keys,      \* texts secp_private_key may be configured to
  KeyLength  \* bytes of a secret key (32)

\* "null" is the only text serde_json reads as (); "cut" ends in an error.
BodyKinds == {"null", "json", "text", "empty", "binary", "cut"}

ASSUME HttpAssumption ==
  /\ Statuses \subseteq 200..599 /\ Bodies \subseteq BodyKinds
  /\ Keys \subseteq Seq(STRING) /\ KeyLength \in Nat \ {0}

Jobs == [client : {"callback", "email", "push"},
         level : {"quiet", "debug"},  \* log::max_level()
         backtrace : {"off", "on"},   \* RUST_BACKTRACE
         key : Keys,
         uri : {"good", "bad"}]       \* hyper accepts the URL

Answers == [status : Statuses, body : Bodies]

NoAnswer == [status |-> 0, body |-> "none"]

VARIABLES
  job,        \* the call and the configuration it runs under
  stage,      \* "building", "exchanging", "checking", "reading", "done"
  written,    \* request bytes may have left the process
  processed,  \* how often the remote service processed the request
  sign,       \* the key the Sign header was made with, <<>>: no such header
  answer,     \* the head of an answer that has reached this process, and what
              \* its body will turn out to be
  result,     \* "none", "ok", "dropped", or the kind of the error
  log         \* what log_error printed of the attempt

httpVars == <<job, stage, written, processed, sign, answer, result, log>>

\* The kinds the clients use; what HttpClient says of the status (bad request,
\* bad gateway, ...) only becomes a cause of "Internal", for the log.
ErrorKinds == {"MalformedInput", "Internal"}

\* What contexts are made of; the log has two layers of its own.
Words ==
  {"at", "", "root", "http", "http kind", "client", "client kind", "service",
   "Hyper", "Server", "Utf8", "Json", "secp256k1", "hyper",
   "BadRequest", "Unauthorized", "NotFound", "Internal", "BadGateway",
   "GatewayTimeout", "UnknownServerError", "MalformedInput",
   "null", "json", "text", "empty", "binary", "cut",
   "futures", FilteredCrate, OwnCrate, "Relevant backtrace:"}

Line == [layer : Words \cup {"log", "frame"}, name : Words]

HttpTypeOK ==
  /\ job \in Jobs
  /\ stage \in {"building", "exchanging", "checking", "reading", "done"}
  /\ written \in BOOLEAN
  /\ processed \in 0..1
  /\ sign \in Seq(0..255)
  /\ answer \in Answers \cup {NoAnswer}
  /\ result \in ErrorKinds \cup {"none", "ok", "dropped"}
  /\ log \in Seq(Line)

\* Only callbacks are signed.
HttpInit ==
  /\ job \in Jobs /\ (job.client # "callback" => job.key = <<>>)
  /\ stage = "building" /\ written = FALSE /\ sign = <<>>
  /\ processed = 0 /\ answer = NoAnswer /\ result = "none" /\ log = <<>>

Proceed(s) == stage' = s /\ UNCHANGED <<result, log>>

Resolve(r) == stage' = "done" /\ result' = r /\ UNCHANGED log

\* An error of the HTTP client, and of one of the three clients.
HttpError(root, kind) == Ectx(<<root>>, <<Ctx("http", "Hyper"), Ctx("http kind", kind)>>)
ClientError(e, sources, kind) == Ectx(e, sources \o <<Ctx("client kind", kind)>>)

\* The text of a backtrace, empty when they are off: a headline, then two
\* lines for each frame.
BacktraceText ==
  IF job.backtrace = "off" THEN <<At>>
  ELSE <<At, Ctx("frame", OwnCrate), At, Ctx("frame", "futures"), At>>

\* The retry loop (services/rabbit.rs) takes the error over, and logs it.
Failed(e) ==
  LET err == EctxConvert(e, <<>>) IN
    /\ stage' = "done"
    /\ result' = Kind(err).name
    /\ log' = FormatError(err, BacktraceText)

-----------------------------------------------------------------------------
(* Building the request.                                                   *)

\* SecretKey::from_slice: of the right length and not zero (the few numbers
\* beyond the order of the curve are left out).
IsSecretKey(bytes) == Len(bytes) = KeyLength /\ \E k \in DOMAIN bytes : bytes[k] # 0

\* Mutant: a failed create_sign is only logged.
SignOrGoOn ==
  /\ stage = "building" /\ job.client = "callback" /\ sign = <<>>
  /\ sign' = ParseHex(job.key) \o <<0>>
  /\ UNCHANGED <<job, stage, written, processed, answer, result, log>>

\* create_sign, for callbacks: fails unless the configured key is a secret
\* key.  Every attempt computes the signature anew.
CreateSign ==
  /\ stage = "building" /\ job.client = "callback" /\ sign = <<>>
  /\ LET key == ParseHex(job.key) IN
       IF IsSecretKey(key)
       THEN sign' = key /\ UNCHANGED <<stage, result, log>>
       ELSE /\ Failed(ClientError(ClientError(<<Ctx("root", "secp256k1")>>, <<>>, "Internal"),
                                 <<Ctx("client", "Hyper")>>, "MalformedInput"))
            /\ UNCHANGED sign
  /\ UNCHANGED <<job, written, processed, answer>>

\* The builder makes a request of method, URI, headers and body, and
\* HttpClient::request starts.
BuildRequest ==
  /\ stage = "building" /\ (job.client = "callback" => sign # <<>>)
  /\ IF job.uri = "good"
     THEN Proceed("exchanging")
     ELSE Failed(ClientError(<<Ctx("root", "http")>>, <<Ctx("client", "Hyper")>>, "MalformedInput"))
  /\ UNCHANGED <<job, written, processed, sign, answer>>

-----------------------------------------------------------------------------
(* The exchange with the remote service.                                   *)

\* The connection is there and hyper writes the request.
WriteRequest ==
  /\ stage = "exchanging" /\ ~written
  /\ written' = TRUE
  /\ UNCHANGED <<job, stage, processed, sign, answer, result, log>>

\* The remote service processes a request that reached it; nothing stops it
\* from doing so after the client has gone.
RemoteProcesses ==
  /\ written /\ processed = 0
  /\ processed' = 1
  /\ UNCHANGED <<job, stage, written, sign, answer, result, log>>

\* The head of its answer arrives.  It may report an error for what it has
\* processed, but no success for what it has not.
RemoteAnswers(a) ==
  /\ stage = "exchanging" /\ written /\ answer = NoAnswer
  /\ a.status \in 200..299 => processed = 1
  /\ answer' = a
  /\ UNCHANGED <<job, stage, written, processed, sign, result, log>>

\* No connection, or it breaks before the head of an answer is there.
ExchangeFails ==
  /\ stage = "exchanging" /\ answer = NoAnswer
  /\ Failed(ClientError(HttpError(Ctx("root", "hyper"), "Internal"), <<>>, "Internal"))
  /\ UNCHANGED <<job, written, processed, sign, answer>>

\* With the log at debug the whole body is read, to be logged, before the
\* answer is looked at; otherwise its head is enough.
AnswerArrives ==
  /\ stage = "exchanging" /\ answer # NoAnswer
  /\ IF job.level = "debug" /\ answer.body = "cut"
     THEN Failed(ClientError(HttpError(Ctx("root", "hyper"), "Internal"), <<>>, "Internal"))
     ELSE Proceed("checking")
  /\ UNCHANGED <<job, written, processed, sign, answer>>

-----------------------------------------------------------------------------
(* What the client makes of the answer.                                    *)

\* Mutant: only the status codes that have an ErrorKind of their own.
KnownErrorStatus(s) == s \in {400, 401, 403, 404, 500, 502, 504}

\* is_client_error() || is_server_error()
IsErrorStatus(s) == s \in 400..599

\* The kind HttpClient gives it.
StatusKind(s) ==
  CASE s = 400 -> "BadRequest"
    [] s \in {401, 403} -> "Unauthorized"
    [] s = 404 -> "NotFound"
    [] s = 500 -> "Internal"
    [] s = 502 -> "BadGateway"
    [] s = 504 -> "GatewayTimeout"
    [] OTHER -> "UnknownServerError"

ServerError(s) ==
  Ectx(<<Ctx("http", "Server")>>, <<Ctx("http kind", StatusKind(s))>>)

\* Mutant: an unauthorized client is told so.
KindOfStatus(s) == IF s \in {401, 403} THEN "Unauthorized" ELSE "Internal"

\* map_err(ectx!(ErrorKind::Internal => ...)), whatever the status.
KindForClient(s) == "Internal"

\* Mutant: a client error of the remote side is an error of the input.
BadRequestIsMalformed ==
  /\ stage = "checking"
  /\ CASE IsErrorStatus(answer.status) ->
            Failed(ClientError(ServerError(answer.status), <<>>,
              IF answer.status < 500 THEN "MalformedInput" ELSE "Internal"))
       [] answer.status < 400 /\ job.client = "email" -> Resolve("ok")
       [] OTHER -> Proceed("reading")
  /\ UNCHANGED <<job, written, processed, sign, answer>>

\* What HttpClient::request makes of the head of the answer; the e-mail client
\* does not look at the body.
CheckStatus ==
  /\ stage = "checking"
  /\ CASE IsErrorStatus(answer.status) ->
            Failed(ClientError(ServerError(answer.status), <<>>, KindForClient(answer.status)))
       [] ~IsErrorStatus(answer.status) /\ job.client = "email" -> Resolve("ok")
       [] OTHER -> Proceed("reading")
  /\ UNCHANGED <<job, written, processed, sign, answer>>

\* Mutant: an answer that is not the expected JSON is good enough.
AnyTextIsUnderstood(b) == b \in {"null", "json", "text", "empty"}

\* read_body, String::from_utf8, serde_json::from_str::<()>
Understood(b) == b = "null"

BodySource(b) == CASE b = "cut" -> "Hyper" [] b = "binary" -> "Utf8" [] OTHER -> "Json"

\* For callbacks and pushes.
ReadAnswer ==
  /\ stage = "reading"
  /\ IF Understood(answer.body)
     THEN Resolve("ok")
     ELSE Failed(ClientError(<<Ctx("root", answer.body)>>,
                             <<Ctx("client", BodySource(answer.body))>>, "Internal"))
  /\ UNCHANGED <<job, written, processed, sign, answer>>

\* The Timeout of start_server drops the future.
Dropped ==
  /\ stage # "done"
  /\ Resolve("dropped")
  /\ UNCHANGED <<job, written, processed, sign, answer>>

HttpNext ==
  \/ CreateSign \/ BuildRequest \/ WriteRequest \/ RemoteProcesses
  \/ (\E a \in Answers : RemoteAnswers(a))
  \/ ExchangeFails \/ AnswerArrives \/ CheckStatus \/ ReadAnswer \/ Dropped

HttpSpec == HttpInit /\ [][HttpNext]_httpVars

-----------------------------------------------------------------------------
(***************************************************************************)
(* An attempt counts as a success only if the remote service processed the *)
(* request, with one exception: a redirection, which nobody follows, also  *)
(* counts.  The retry loop does not stop, and the notification is not      *)
(* acked, on the strength of anything else, 418 and 503 included.          *)
(***************************************************************************)
SuccessIsProcessed ==
  result = "ok" => processed = 1 \/ answer.status \in 300..399

(***************************************************************************)
(* No callback leaves the process without a signature made with the        *)
(* configured key; with an unusable key (the empty one of                  *)
(* config/development.toml) every attempt fails before it is sent.         *)
(***************************************************************************)
OnlySignedLeaves ==
  (written /\ job.client = "callback") => IsSecretKey(sign)

(***************************************************************************)
(* "Malformed input" is a verdict on the notification or the configuration:*)
(* it is only given before anything was sent, so that whoever drops such a *)
(* notification loses no trace of a delivery.                              *)
(***************************************************************************)
MalformedIsUnsent == result = "MalformedInput" => ~written /\ answer = NoAnswer

\* The answer is a success, to a client that would read only what it needs.
GoodAnswer ==
  /\ answer # NoAnswer /\ answer.status < 400
  /\ job.client # "email" => answer.body = "null"

(***************************************************************************)
(* Once an answer is there, nothing but the answer decides over success    *)
(* and failure, and the log level does not, with one exception: at debug   *)
(* an e-mail whose response breaks off is a failure, and is sent again,    *)
(* where without debug it is a success.                                    *)
(***************************************************************************)
LogLevelIsHarmless ==
  (answer # NoAnswer /\ result \notin {"none", "dropped"}) =>
    ((result = "ok") <=>
       /\ GoodAnswer
       /\ ~(job.client = "email" /\ job.level = "debug" /\ answer.body = "cut"))

(***************************************************************************)
(* A callback is signed with the digits of the configured key, in their    *)
(* order: written back, the key is what the text says, whatever its case   *)
(* and whatever else is in it - but one digit too many goes unnoticed.     *)
(***************************************************************************)
KeyDigitsSign ==
  sign # <<>> =>
    LET digits == DigitsOf(job.key)
        lower == [k \in DOMAIN digits |-> Chars[DigitValue(digits[k]) + 1]] IN
      IsPrefix(ToHex(sign), lower) /\ Len(lower) \in {2 * KeyLength, 2 * KeyLength + 1}

(***************************************************************************)
(* A key written with a prefix 0x is another key: the x is skipped, the 0  *)
(* is the first digit and the last digit is dropped.  No callback is signed*)
(* with the key that was written, and the attempt is only refused if there *)
(* is nothing in the key but the digit that is dropped.                    *)
(***************************************************************************)
PrefixedKeyIsAnotherKey ==
  (job.client = "callback" /\ IsPrefix(<<"0", "x">>, job.key)) =>
    LET meant == ParseHex(Tail(Tail(job.key))) IN
      (Len(DigitsOf(job.key)) = 2 * KeyLength + 1 /\ IsSecretKey(meant)) =>
        /\ sign # meant
        /\ (job.uri = "good" /\ result = "MalformedInput") =>
             \A k \in 1..KeyLength : meant[k] = 0 \/ (k = KeyLength /\ meant[k] < 16)

\* The remote service answered with an error, and the client got to see it.
Refused ==
  /\ answer # NoAnswer /\ answer.status >= 400
  /\ ~(job.level = "debug" /\ answer.body = "cut")

(***************************************************************************)
(* The log of a failed attempt tells its cause, through four layers of     *)
(* errors: its first line is what went wrong first, it says "server        *)
(* returned response with error", and which, just when the remote service  *)
(* refused, and what the loop was told comes last of the chain.            *)
(***************************************************************************)
LogTellsTheCause ==
  result \in ErrorKinds =>
    LET lines == Keep(log, {line \in ToSet(log) : line.layer \notin {"log", "frame"}})
        server == Ctx("http", "Server") IN
      /\ (lines[1] = server) <=> Refused
      /\ lines[1].layer \in {"root", "http"}
      /\ Refused => Ctx("http kind", StatusKind(answer.status)) \in ToSet(log)
      /\ Last(lines) = Ctx("service", result)

(***************************************************************************)
(* "Relevant backtrace:", utils.rs line 22: with backtraces on (k8s sets   *)
(* RUST_BACKTRACE) the log of an error shows the frames of this crate that *)
(* it passed.                                                              *)
(***************************************************************************)
BacktraceIsShown ==
  (result \in ErrorKinds /\ job.backtrace = "on") =>
    Ctx("frame", OwnCrate) \in ToSet(log)
=============================================================================
