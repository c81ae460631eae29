----------------------------- MODULE QuotePolling -----------------------------
(***************************************************************************)
(* RealtimeQuotePollingService and its command: the quotes of a list of    *)
(* symbols, one after another.  A symbol's own data come from Tushare Pro, *)
(* its quote from `quotation` and, when that has none, from the legacy     *)
(* interface; a fast poll asks the legacy interface only.  Prices are left *)
(* out: rows may hold none and still be a quote.                           *)
(***************************************************************************)
EXTENDS Naturals, Sequences, FiniteSets, Missing

CONSTANTS
  QuoteLists,   \* the lists of spellings that are asked for
  CodeOf,       \* [spelling -> its six digits, None for what has none]
  Listed        \* the codes whose prefix is one of Shanghai or Shenzhen

ASSUME QuoteAssumption ==
  /\ QuoteLists \subseteq Seq(DOMAIN CodeOf)
  /\ None \notin {"realtime", "legacy_realtime"} /\ None \notin 0 .. 3

VARIABLES
  poll,        \* the poll at work: [fast, symbols], None before
  queue,       \* the symbols without an item, the current one included
  quoteStep,   \* the next call for the current symbol
  heardOf,     \* history: [call -> outcome] for the current symbol
  quotes,      \* the items
  quoteExit    \* exit code of the command, None before its end

quoteVars == <<poll, queue, quoteStep, heardOf, quotes, quoteExit>>

QuoteCall == {"info", "quotation", "legacy"}
CallOutcome == {"row", "empty", "error"}

\* The mode that a quote tells, by the call that found it.
QuoteMode == [quotation |-> "realtime", legacy |-> "legacy_realtime"]

\* parse_symbols: a spelling without a code counts as itself.
SameSecurity(x, y) == IF CodeOf[x] = None THEN x = y ELSE CodeOf[x] = CodeOf[y]

\* parse_symbols: the first spelling of each security.
FirstSpellings(list) == {i \in DOMAIN list : \A j \in 1 .. (i - 1) : ~SameSecurity(list[i], list[j])}
AskedSecurities(list) ==
  [k \in 1 .. Cardinality(FirstSpellings(list)) |->
     list[CHOOSE i \in FirstSpellings(list) : Cardinality(FirstSpellings(list) \cap 1 .. i) = k]]

NoCalls == [c \in {} |-> ""]

QuoteInit ==
  /\ poll = None /\ queue = <<>> /\ quoteStep = "idle" /\ heardOf = NoCalls
  /\ quotes = <<>> /\ quoteExit = None

\* main up to poll: nothing to ask is refused, a missing token is a RuntimeError of
\* _default_get_pro, and any other exception ends the command as well.
StartPoll(list, fast, pro) ==
  /\ quoteStep = "idle"
  /\ poll' = [fast |-> fast, symbols |-> list]
  /\ quoteExit' = CASE list = <<>> -> 2
                    [] list # <<>> /\ ~fast /\ pro = "missing" -> 3
                    [] list # <<>> /\ ~fast /\ pro = "broken" -> 1
                    [] OTHER -> None
  /\ IF quoteExit' = None
     THEN queue' = AskedSecurities(list) /\ quoteStep' = "look"
     ELSE quoteStep' = "ended" /\ UNCHANGED queue
  /\ UNCHANGED <<heardOf, quotes>>

\* _build_ts_code: the symbol needs six digits and a known prefix.
Legal(symbol) == CodeOf[symbol] \in Listed

\* The info of an item: the security's own row, the base info made from its code, or
\* none when the symbol has no call.
InfoOf(symbol, calls) ==
  IF ~Legal(symbol) THEN None
  ELSE IF "info" \in DOMAIN calls /\ calls["info"] = "row" THEN "own" ELSE "base"

\* _build_failed_item, and the item with a quote.
Emit(mode, errors) ==
  /\ quotes' = Append(quotes, [symbol |-> Head(queue), mode |-> mode, errors |-> errors,
                               status |-> IF mode = None THEN "failed" ELSE "ok",
                               info |-> InfoOf(Head(queue), heardOf'), heard |-> heardOf'])
  /\ queue' = Tail(queue)
  /\ quoteStep' = "look"
  /\ UNCHANGED <<poll, quoteExit>>

\* _fetch_item before its calls.
LookAtSymbol ==
  /\ quoteStep = "look" /\ queue # <<>>
  /\ heardOf' = NoCalls
  /\ IF Legal(Head(queue))
     THEN /\ quoteStep' = IF poll.fast THEN "legacy" ELSE "info"
          /\ UNCHANGED <<poll, queue, quotes, quoteExit>>
     ELSE Emit(None, {"symbol"})

HearCall(call, outcome) == heardOf' = [c \in DOMAIN heardOf \cup {call} |->
                                     IF c = call THEN outcome ELSE heardOf[c]]

FailedCalls(calls) == {c \in DOMAIN calls : calls[c] # "row"}

\* _fetch_security_info: without a row the base info stays.
AskInfo(outcome) ==
  /\ quoteStep = "info"
  /\ HearCall("info", outcome)
  /\ quoteStep' = "quotation"
  /\ UNCHANGED <<poll, queue, quotes, quoteExit>>

\* pro.quotation in _fetch_item: a quote of its own drops the error of the info.
AskQuotation(outcome) ==
  /\ quoteStep = "quotation"
  /\ HearCall("quotation", outcome)
  /\ IF outcome = "row" THEN Emit(QuoteMode["quotation"], {})
     ELSE quoteStep' = "legacy" /\ UNCHANGED <<poll, queue, quotes, quoteExit>>

\* _fetch_legacy_quote and the end of _fetch_item.
AskLegacy(outcome) ==
  /\ quoteStep = "legacy"
  /\ HearCall("legacy", outcome)
  /\ IF outcome = "row" THEN Emit(QuoteMode["legacy"], {}) ELSE Emit(None, FailedCalls(heardOf'))

\* The end of poll: "partial" even when every item failed.
PollStatus == IF \A i \in DOMAIN quotes : quotes[i].status = "ok" THEN "ok" ELSE "partial"

EndPoll ==
  /\ quoteStep = "look" /\ queue = <<>>
  /\ quoteStep' = "ended"
  /\ quoteExit' = 0
  /\ UNCHANGED <<poll, queue, heardOf, quotes>>

QuoteNext ==
  \/ \E list \in QuoteLists, fast \in BOOLEAN, pro \in {"ready", "missing", "broken"} :
       StartPoll(list, fast, pro)
  \/ LookAtSymbol
  \/ \E outcome \in CallOutcome : AskInfo(outcome) \/ AskQuotation(outcome) \/ AskLegacy(outcome)
  \/ EndPoll

QuoteSpec == QuoteInit /\ [][QuoteNext]_quoteVars
-----------------------------------------------------------------------------
(* Properties. *)

\* Every security asked for has one item, whatever its spellings, in the order of the
\* request; an item without a quote tells every call that failed for it, and one with a
\* quote hides no quote of a better source.  Only the failure of a symbol's own data is
\* told nowhere once it has a quote.  (parse_symbols, poll, _fetch_item)
QuotesTold ==
  /\ quoteExit = 0 =>
       /\ \A s \in {poll.symbols[i] : i \in DOMAIN poll.symbols} :
            \E i \in DOMAIN quotes : SameSecurity(s, quotes[i].symbol)
       /\ PollStatus = "ok" => \A i \in DOMAIN quotes : Legal(quotes[i].symbol)
  /\ \A i, j \in DOMAIN quotes : i < j =>
       /\ ~SameSecurity(quotes[i].symbol, quotes[j].symbol)
       /\ \E m, n \in DOMAIN poll.symbols :
            m < n /\ quotes[i].symbol = poll.symbols[m] /\ quotes[j].symbol = poll.symbols[n]
  /\ \A i \in DOMAIN quotes :
       LET q == quotes[i] IN
         /\ q.status = "failed" /\ Legal(q.symbol) =>
              /\ q.errors = FailedCalls(q.heard)
              /\ (IF poll.fast THEN {"legacy"} ELSE QuoteCall) \subseteq q.errors \cup {"info"}
         /\ q.mode = QuoteMode["legacy"] => poll.fast \/ "quotation" \in FailedCalls(q.heard)
=============================================================================
