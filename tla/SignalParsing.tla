--------------------------- MODULE SignalParsing ---------------------------
(***************************************************************************)
(* From a message to a paper trade: SignalParser, SignalProcessor and      *)
(* PaperRunner with its store.                                             *)
(*                                                                         *)
(* A message is a sequence of words as the parser's patterns see them: a   *)
(* keyword, the name of an instrument, or a level, which is a label and a  *)
(* price with or without an @ in front of it.  What the words are made of  *)
(* is left out.                                                            *)
(***************************************************************************)
EXTENDS Naturals, Sequences, FiniteSets, SequencesExt

CONSTANTS
  Words,      \* what authors write
  MaxWords,   \* bound: words of a message
  MaxPapers   \* bound: paper trades

None == "none"
NoLevel == 0

\* The dictionaries of the parser, in their order.
ActionWords == <<"BUY", "SELL", "LONG", "SHORT">>
Aliases == <<"EUR_USD", "GBP_USD", "USD_JPY", "XAU_USD">>

CloseWords == {"CLOSE NOW"}
UpdateWords == {"MOVE SL"}
Labels == {"", "ENTRY", "LIMIT", "SL", "TP"}

Keyword == [word : ToSet(ActionWords) \cup CloseWords \cup UpdateWords]
Name == [symbol : ToSet(Aliases)]
Level == [label : Labels, at : BOOLEAN, price : Nat \ {NoLevel}]

ASSUME ParsingAssumption ==
  /\ \A w \in Words :
       \/ "word" \in DOMAIN w /\ w \in Keyword
       \/ "symbol" \in DOMAIN w /\ w \in Name
       \/ "price" \in DOMAIN w /\ w \in Level
  /\ \A w \in Words : "price" \in DOMAIN w /\ w.label = "" => w.at
  /\ MaxWords \in Nat /\ MaxPapers \in Nat

VARIABLES
  message,   \* the message that is written, then sent
  signal,    \* what the processor has made of it, NoSignal before
  parsed,    \* the SIGNAL_PARSED events
  papers     \* data/paper_trades.json

deskVars == <<message, signal, parsed, papers>>

NoSignal == [status |-> "UNPARSED"]
-----------------------------------------------------------------------------
(***************************************************************************)
(* SignalParser.  A pattern is searched for in the whole text, and its     *)
(* first match counts.                                                     *)
(***************************************************************************)
Has(m, word) == \E i \in DOMAIN m : "word" \in DOMAIN m[i] /\ m[i].word = word
Names(m, symbol) == \E i \in DOMAIN m : "symbol" \in DOMAIN m[i] /\ m[i].symbol = symbol

\* Where a pattern matches, and the price of its first match.
Levels(m, Test(_)) == {i \in DOMAIN m : "price" \in DOMAIN m[i] /\ Test(m[i])}
Leading(m, places) == IF places = {} THEN NoLevel ELSE m[Min(places)].price

\* The first entry of the dictionary that is in the text, wherever it stands there.
ExtractAction(m) ==
  LET i == SelectInSeq(ActionWords, LAMBDA word : Has(m, word))
  IN  IF i = 0 THEN None ELSE IF ActionWords[i] \in {"BUY", "LONG"} THEN "buy" ELSE "sell"

ExtractSymbol(m) ==
  LET i == SelectInSeq(Aliases, LAMBDA symbol : Names(m, symbol))
  IN  IF i = 0 THEN None ELSE Aliases[i]

\* Mutant: the patterns are tried in another order.
EntryPatternsSwapped(m) ==
  <<Levels(m, LAMBDA w : w.at), Levels(m, LAMBDA w : w.label = "ENTRY"),
    Levels(m, LAMBDA w : w.label = "LIMIT")>>

\* The patterns of _extract_entry_price: ENTRY (or ENTER), any @, LIMIT (or PRICE).
EntryPatterns(m) ==
  <<Levels(m, LAMBDA w : w.label = "ENTRY"), Levels(m, LAMBDA w : w.at),
    Levels(m, LAMBDA w : w.label = "LIMIT")>>

\* The first of the patterns that matches.
ExtractEntry(m) ==
  LET i == SelectInSeq(EntryPatterns(m), LAMBDA places : places # {})
  IN  IF i = 0 THEN NoLevel ELSE Leading(m, EntryPatterns(m)[i])
ExtractStop(m) == Leading(m, Levels(m, LAMBDA w : w.label = "SL"))
\* The first of the take_profits.
ExtractTarget(m) == Leading(m, Levels(m, LAMBDA w : w.label = "TP"))

\* Mutant: one of the two levels is enough.
CompleteHalf(m) ==
  None \notin {ExtractAction(m), ExtractSymbol(m)} /\ {ExtractStop(m), ExtractTarget(m)} # {NoLevel}

Complete(m) ==
  None \notin {ExtractAction(m), ExtractSymbol(m)} /\ NoLevel \notin {ExtractStop(m), ExtractTarget(m)}

ParseStatus(m) ==
  IF m = <<>> THEN "INVALID_SIGNAL"
  ELSE IF \E w \in CloseWords : Has(m, w) THEN "CLOSE_SIGNAL"
  ELSE IF \E w \in UpdateWords : Has(m, w) THEN "UPDATE_SIGNAL"
  ELSE IF {ExtractAction(m), ExtractSymbol(m)} = {None} THEN "COMMENTARY_ONLY"
  ELSE IF Complete(m) THEN "VALID_SIGNAL" ELSE "PARTIAL_SIGNAL"

\* The fields of ParsedSignal: the status alone unless symbol or action was found.
Parse(m) ==
  IF ParseStatus(m) \notin {"PARTIAL_SIGNAL", "VALID_SIGNAL"} THEN [status |-> ParseStatus(m)]
  ELSE [status |-> ParseStatus(m), action |-> ExtractAction(m), symbol |-> ExtractSymbol(m),
        entry |-> ExtractEntry(m), stop |-> ExtractStop(m), target |-> ExtractTarget(m)]
-----------------------------------------------------------------------------
DeskInit == message = <<>> /\ signal = NoSignal /\ parsed = <<>> /\ papers = <<>>

\* An author adds a word; no message has the same word twice (a bound).
Write ==
  /\ signal = NoSignal /\ Len(message) < MaxWords
  /\ \E w \in Words \ ToSet(message) : message' = Append(message, w)
  /\ UNCHANGED <<signal, parsed, papers>>

\* process_raw_signal.  VALID_SIGNAL is READY_FOR_PAPER, all else OBSERVE_ONLY.
ProcessRawSignal ==
  /\ signal = NoSignal
  /\ signal' = Parse(message)
  /\ parsed' = Append(parsed, ParseStatus(message))
  /\ UNCHANGED <<message, papers>>

\* create_paper_trade: the store does not look whether it has the signal already.
CreatePaperTrade ==
  papers' = Append(papers, [action |-> signal.action, symbol |-> signal.symbol,
    entry |-> signal.entry, stop |-> signal.stop, target |-> signal.target])

PaperTradeSignal ==
  /\ signal.status = "VALID_SIGNAL"
  /\ None \notin {signal.symbol, signal.action} /\ NoLevel \notin {signal.stop, signal.target}
  /\ Len(papers) < MaxPapers
  /\ CreatePaperTrade
  /\ UNCHANGED <<message, signal, parsed>>

DeskNext == Write \/ ProcessRawSignal \/ PaperTradeSignal
DeskSpec == DeskInit /\ [][DeskNext]_deskVars
-----------------------------------------------------------------------------
(***************************************************************************)
(* Properties.                                                             *)
(***************************************************************************)
Paper == [action : {"buy", "sell"}, symbol : ToSet(Aliases), entry : Nat,
          stop : Nat \ {NoLevel}, target : Nat \ {NoLevel}]

Statuses == {"INVALID_SIGNAL", "CLOSE_SIGNAL", "UPDATE_SIGNAL", "COMMENTARY_ONLY",
             "VALID_SIGNAL", "PARTIAL_SIGNAL"}

DeskTypeOK ==
  /\ message \in Seq(Words)
  /\ signal.status = "VALID_SIGNAL" =>
       signal \in [status : {"VALID_SIGNAL"}, action : {"buy", "sell"}, symbol : ToSet(Aliases),
                   entry : Nat, stop : Nat \ {NoLevel}, target : Nat \ {NoLevel}]
  /\ parsed \in Seq(Statuses)
  /\ papers \in Seq(Paper)

Written == ToSet(message)
Prices(labels) == {w.price : w \in {w \in Written : "price" \in DOMAIN w /\ w.label \in labels}}
Directions == {i \in DOMAIN ActionWords : Has(message, ActionWords[i])}
Meaning(i) == IF ActionWords[i] \in {"BUY", "LONG"} THEN "buy" ELSE "sell"

\* One direction, one instrument and one level of a kind.
Plain ==
  /\ Cardinality(Directions) = 1
  /\ Cardinality({w \in Written : "symbol" \in DOMAIN w}) = 1
  /\ \A labels \in {{"", "ENTRY", "LIMIT"}, {"SL"}, {"TP"}} :
       Cardinality({w \in Written : "price" \in DOMAIN w /\ w.label \in labels}) <= 1

\* An @ in front of a stop or a target may be taken for that of the entry.
Stray ==
  /\ \E w \in Written : "price" \in DOMAIN w /\ w.label \in {"SL", "TP"} /\ w.at
  /\ Prices({"ENTRY"}) = {}

\* A paper trade is what the author of a plain message meant, in whatever order and
\* style it was written, except for the entry when a stray @ is about; and no paper
\* trade comes of a message that closes or moves a trade.
PaperAsMeant ==
  \A i \in DOMAIN papers :
    LET p == papers[i]
    IN  /\ \A word \in CloseWords \cup UpdateWords : ~ Has(message, word)
        /\ Plain =>
             /\ \A d \in Directions : p.action = Meaning(d)
             /\ Names(message, p.symbol)
             /\ Prices({"SL"}) = {p.stop} /\ Prices({"TP"}) = {p.target}
             /\ ~ Stray => Prices({"", "ENTRY", "LIMIT"}) = {p.entry} \ {NoLevel}

\* What holds all the time, for the proof of it: the processor made the signal of the
\* message, and the runner made the papers of the signal.
DeskInv ==
  /\ DeskTypeOK
  /\ signal = NoSignal \/ signal = Parse(message)
  /\ \A i \in DOMAIN papers :
       /\ signal.status = "VALID_SIGNAL"
       /\ papers[i] = [action |-> signal.action, symbol |-> signal.symbol, entry |-> signal.entry,
                       stop |-> signal.stop, target |-> signal.target]
=============================================================================
