------------------------------- MODULE LogView -------------------------------
(***************************************************************************)
(* The log panel (features/logs/LogPanel.tsx) and the tool calls of the    *)
(* activity panel (features/activity/toolActivity.ts), over the log        *)
(* records of the main process and the window's copy of them.  A reply of  *)
(* a worker's model requests tools, one after the other, and the worker    *)
(* then calls them in that order and reports each outcome.  A worker that  *)
(* dies, or marks its task complete, leaves what is open without one, and  *)
(* the node's next attempt starts over.                                    *)
(***************************************************************************)
EXTENDS Naturals, Sequences, FiniteSets, SequencesExt

CONSTANTS
  LogNodes,    \* the nodes of the run
  Tools,       \* the names of their tools
  NoCall,      \* no tool, no node
  MaxRecords,  \* records the workers make
  Kept         \* records each side keeps

ASSUME LogAssumption == MaxRecords \in Nat /\ Kept \in Nat \ {0}

Levels == {"info", "warn"}

VARIABLES
  ring,      \* the main process: the newest records, oldest first
  logs,      \* the window's copy
  calling,   \* [LogNodes -> the reply under way: its open calls in order, and
             \*  whether the model still requests]
  made,      \* records made so far
  left,      \* history: the nodes whose worker left calls open
  unsent     \* pendingLogs: the records the window was not sent yet

logVars == <<ring, logs, calling, made, left, unsent>>

-----------------------------------------------------------------------------
\* A record: its place, node and level; and for one of a tool call what it
\* says.  "call" is the request it belongs to, which no record tells.
Record(node, level, says, tool, call) ==
  [seq |-> made + 1, node |-> node, level |-> level, says |-> says, tool |-> tool, call |-> call]

NewestOf(s) == SubSeq(s, (IF Len(s) > Kept THEN Len(s) - Kept ELSE 0) + 1, Len(s))

LogInit ==
  /\ ring = <<>> /\ logs = <<>> /\ made = 0 /\ left = {} /\ unsent = <<>>
  /\ calling = [n \in LogNodes |-> [calls |-> <<>>, requesting |-> FALSE]]

Report(record) ==
  /\ made < MaxRecords /\ made' = made + 1
  /\ ring' = NewestOf(Append(ring, record))
  /\ unsent' = Append(unsent, record)
  /\ UNCHANGED logs

\* A line of a worker that is no tool call.
Prints(n, level) ==
  Report(Record(n, level, "line", NoCall, 0)) /\ UNCHANGED <<calling, left>>

\* The model requests a tool, as the first of its reply or after others.
Requests(n, t) ==
  /\ calling[n].calls = <<>> \/ calling[n].requesting
  /\ Report(Record(n, "info", "requested", t, made + 1))
  /\ calling' = [calling EXCEPT ![n] =
                   [calls |-> Append(@.calls, [tool |-> t, call |-> made + 1]), requesting |-> TRUE]]
  /\ UNCHANGED left

\* The worker reads a call in the text of a reply that requests none: only the
\* outcome is reported.
ReadsCall(n, t, outcome) ==
  /\ calling[n].calls = <<>>
  /\ Report(Record(n, "info", outcome, t, made + 1))
  /\ UNCHANGED <<calling, left>>

\* The first of the calls is done or has failed.
Finishes(n, outcome) ==
  /\ calling[n].calls # <<>>
  /\ LET c == Head(calling[n].calls) IN Report(Record(n, "info", outcome, c.tool, c.call))
  /\ calling' = [calling EXCEPT ![n] = [calls |-> Tail(@.calls), requesting |-> FALSE]]
  /\ UNCHANGED left

\* The worker dies or its task is complete, which reports no outcome.
WorkerLeaves(n) ==
  /\ calling[n].calls # <<>>
  /\ calling' = [calling EXCEPT ![n] = [calls |-> <<>>, requesting |-> FALSE]]
  /\ left' = left \cup {n}
  /\ UNCHANGED <<ring, logs, made, unsent>>

\* flushLogs: what is pending reaches the window.
FlushLogs ==
  /\ unsent # <<>> /\ unsent' = <<>>
  /\ logs' = NewestOf(logs \o unsent)
  /\ UNCHANGED <<ring, calling, made, left>>

\* The user clears the list: the main process keeps its records.
ClearLogs ==
  /\ logs # <<>> /\ logs' = <<>>
  /\ UNCHANGED <<ring, calling, made, left, unsent>>

-----------------------------------------------------------------------------
\* The panel's list: the copy without the model's own records, of the levels that
\* are on and, if the list is scoped, of that node.
Filtered(levels, node) ==
  SelectSeq(logs, LAMBDA r : /\ r.says = "line" /\ r.level \in levels
                             /\ node = NoCall \/ r.node = node)

\* The query of an export, and queryLogs' answer: no level means every level.
CurrentQuery(levels, node) ==
  [node |-> node, levels |-> IF Cardinality(levels) < Cardinality(Levels) THEN levels ELSE {}]
Exported(q) ==
  SelectSeq(ring, LAMBDA r : /\ r.says = "line"
                             /\ q.levels = {} \/ r.level \in q.levels
                             /\ q.node = NoCall \/ r.node = q.node)

\* Whatever node requested it.
AnswersAnywhere(c, r) == c.status = "running" /\ c.tool = r.tool

\* buildToolCalls: an outcome belongs to the oldest request for the tool that is
\* still open, of the same node; one without a request is a call of its own.
Answers(c, r) == c.status = "running" /\ c.tool = r.tool /\ c.node = r.node

AddRecord(calls, r) ==
  LET open == {i \in DOMAIN calls : Answers(calls[i], r)}
      call(status) == [seq |-> r.seq, node |-> r.node, tool |-> r.tool, status |-> status]
  IN CASE r.says = "line" -> calls
       [] r.says = "requested" -> Append(calls, call("running"))
       [] open = {} -> Append(calls, call(r.says))
       [] OTHER -> [calls EXCEPT ![Min(open)].status = r.says]

ToolCalls(records) == FoldLeft(AddRecord, <<>>, records)

ModelsTurn == \E n \in LogNodes, t \in Tools : Requests(n, t)
WorkersTurn ==
  \/ \E n \in LogNodes, t \in Tools, o \in {"done", "failed"} : ReadsCall(n, t, o)
  \/ \E n \in LogNodes, o \in {"done", "failed"} : Finishes(n, o)
  \/ \E n \in LogNodes : WorkerLeaves(n)

LogNext ==
  \/ \E n \in LogNodes, l \in Levels : Prints(n, l)
  \/ ModelsTurn
  \/ WorkersTurn
  \/ FlushLogs
  \/ ClearLogs

LogSpec == LogInit /\ [][LogNext]_logVars

-----------------------------------------------------------------------------
(***************************************************************************)
(* Properties.                                                             *)
(***************************************************************************)
\* toolActivity.ts:36-40, 72: every outcome in the buffer is shown, as one call of
\* its node and tool, whether its request is still there or not and whatever
\* other nodes and earlier attempts do; and while a node's requests are there and
\* its worker left none of them open, each call is shown with its own outcome.
ToolsAreTheCalls ==
  \A n \in LogNodes :
    LET records == SelectSeq(logs, LAMBDA r : r.node = n /\ r.says # "line")
        shown == SelectSeq(ToolCalls(logs), LAMBDA c : c.node = n)
        outcomes(call) == {records[i].says : i \in {j \in DOMAIN records :
                             records[j].call = call /\ records[j].says # "requested"}}
        requests == {records[i].seq : i \in {j \in DOMAIN records : records[j].says = "requested"}}
        whole == \A r \in ToSet(records) : r.call \in requests \cup {r.seq}
    IN /\ \A t \in Tools, o \in {"done", "failed"} :
            Len(SelectSeq(shown, LAMBDA c : c.tool = t /\ c.status = o))
              = Len(SelectSeq(records, LAMBDA r : r.tool = t /\ r.says = o))
       /\ whole /\ n \notin left =>
            /\ {c.seq : c \in ToSet(shown)} = {r.call : r \in ToSet(records)}
            /\ \A c \in ToSet(shown) :
                 outcomes(c.seq) = IF c.status = "running" THEN {} ELSE {c.status}

\* LogPanel.tsx:48-49: once the window has the records of the main process, an
\* export holds what the panel shows, whatever the filters: of what was said, what
\* is left when the list was not cleared and some level is on.
ExportIsTheScreen ==
  logs = ring =>
    \A levels \in SUBSET Levels \ {{}}, n \in LogNodes \cup {NoCall} :
      Exported(CurrentQuery(levels, n)) = Filtered(levels, n)

\* LogPanel.tsx:48-49, as it is said: "an export matches exactly what's on screen",
\* once the window was sent every record.
ExportMatchesTheScreen ==
  unsent = <<>> =>
    \A levels \in SUBSET Levels, n \in LogNodes \cup {NoCall} :
      Exported(CurrentQuery(levels, n)) = Filtered(levels, n)
=============================================================================
