-------------------------------- MODULE XD3Main -------------------------------
(***************************************************************************)
(* main_input of the command line tool (xdelta3-main.h): the loop that     *)
(* reads windows of input, calls xd3_encode_input or xd3_decode_input and  *)
(* acts on what they return, with the opening of source and output, the    *)
(* children of external compression (XD3ExtComp), and the end, in success  *)
(* or with the cleanup of main().                                          *)
(*                                                                         *)
(* The library is seen by its results only.  To the encoder each block it  *)
(* is given is a window.  To the decoder unit 1 is the header of the file, *)
(* and then a window is two units, its header and the rest.  The output of *)
(* a window is its number.  Either may ask for blocks of the source.       *)
(***************************************************************************)
EXTENDS XD3ExtComp

CONSTANTS Winsize,    \* option_winsize
          SrcBlock,   \* units of a source block
          Jobs        \* what the tool may be asked to do

(* A job: the command; the units in each file, and whether they are        *)
(* compressed; whether there is a source, and the header of the delta says *)
(* that it was compressed; whether the output is recompressed or not made. *)
JobType == [cmd : {"encode", "decode", "printhdr"}, source : BOOLEAN, says : BOOLEAN,
            size : [{"src", "inp"} -> Nat], packed : [{"src", "inp"} -> BOOLEAN],
            recomp : BOOLEAN, noout : BOOLEAN]
ASSUME MainAssumption ==
  /\ Winsize \in Nat /\ Winsize >= Alloc /\ SrcBlock \in Nat \ {0}
  /\ Jobs \subseteq JobType

VARIABLES pc,         \* where main_input is
          rd,         \* the read under way: file, units wanted, units read, where then
          pos,        \* the position in each file that is read without a child
          fresh,      \* the files with RD_FIRST
          piped,      \* the files read from a child
          nread,      \* units of input read last
          flush,      \* XD3_FLUSH
          opened,     \* the output is open
          lib,        \* the stream
          waited,     \* how many entries of ext_subprocs are zero again
          result

parentVars == <<pc, rd, pos, fresh, piped, nread, flush, opened, lib, waited, result>>
extVars    == <<pipe, kid, ext_subprocs, written>>
toolVars   == <<job, parentVars, extVars>>

Lesser(a, b) == IF a < b THEN a ELSE b
\* main_get_winsize.
WinsizeOf ==
  LET w == Lesser(job.size["inp"], Winsize) IN IF w < Alloc THEN Alloc ELSE w

MainInit ==
  /\ job \in Jobs /\ ExtInit
  /\ pc = IF job.cmd # "decode" /\ job.source THEN "source" ELSE "read"
  /\ rd = [file |-> "inp", want |-> 0, got |-> <<>>, then |-> "read"]
  /\ pos = [f \in {"src", "inp"} |-> 0] /\ fresh = {"src", "inp"} /\ piped = {}
  /\ nread = 0 /\ flush = FALSE /\ opened = FALSE /\ waited = 0 /\ result = "none"
  /\ lib = [st |-> "input", avail |-> <<>>, part |-> <<>>, fed |-> <<>>, window |-> 0]

\* The end of the tool.  On failure main() kills the children still in ext_subprocs;
\* a signal does not go through main().
Finish(r) ==
  LET k == IF r = "failure" THEN Killed(kid, waited + 1) ELSE kid
  IN  /\ result' = r /\ pc' = "end"
      /\ kid' = k /\ pipe' = AfterKill(k, Without(pipe, Tool))
      /\ UNCHANGED <<ext_subprocs, written>>
Goto(l) == pc' = l /\ UNCHANGED <<result, extVars>>

-----------------------------------------------------------------------------
(* Reading: main_read_primary_input.                                       *)

Reads(f, n, then) == rd' = [file |-> f, want |-> n, got |-> <<>>, then |-> then]

\* main_set_source opens the source and reads its first block.
SetSource ==
  /\ pc = "source"
  /\ Reads("src", SrcBlock, IF job.cmd = "decode" THEN "again" ELSE "read")
  /\ Goto("reading")
  /\ UNCHANGED <<job, pos, fresh, piped, nread, flush, opened, lib, waited>>
OpenFails ==
  /\ "open" \in Faults /\ pc = "source" /\ Finish("failure")
  /\ UNCHANGED <<job, rd, pos, fresh, piped, nread, flush, opened, lib, waited>>

ReadInput ==
  /\ pc = "read" /\ Reads("inp", WinsizeOf, "got") /\ Goto("reading")
  /\ UNCHANGED <<job, pos, fresh, piped, nread, flush, opened, lib, waited>>

\* main_secondary_decompress_check, on the first read of a file.  The application
\* header of a delta may say that the source is compressed; otherwise the magic
\* number does.
Compressed(f, block) ==
  IF f = "src" /\ job.cmd = "decode" /\ job.says THEN TRUE
  ELSE job.packed[f] /\ block # <<>>
FirstRead ==
  LET f == rd.file
      want == Lesser(rd.want, Alloc)
      first == Block(f, 0, want)
      rest == IF Len(first) = want THEN Block(f, want, rd.want - want) ELSE <<>>
  IN  /\ pc = "reading" /\ f \in fresh /\ fresh' = fresh \ {f}
      /\ \/ /\ Compressed(f, first)
            /\ \E forks \in IF "fork" \in Faults THEN 0 .. 2 ELSE {2} :
                 /\ Decompress(f, first, Len(first), forks)
                 /\ pc' = IF forks = 2 THEN "reading" ELSE "failing"
            /\ piped' = piped \cup {f} /\ UNCHANGED <<rd, pos>>
         \/ /\ ~ Compressed(f, first)
            /\ rd' = [rd EXCEPT !.got = first \o rest]
            /\ pos' = [pos EXCEPT ![f] = Len(rd'.got)] /\ pc' = rd.then
            /\ UNCHANGED <<piped, pipe, kid, ext_subprocs>>
  /\ UNCHANGED <<job, nread, flush, opened, lib, waited, result, written>>

\* The read of the rest of the block fails: its result is not looked at.
RestReadFails ==
  LET first == Block(rd.file, 0, Alloc) IN
  /\ pc = "reading" /\ rd.file \in fresh /\ ~ Compressed(rd.file, first)
  /\ Len(first) = Alloc /\ rd.want > Alloc
  /\ fresh' = fresh \ {rd.file} /\ rd' = [rd EXCEPT !.got = first]
  /\ pos' = [pos EXCEPT ![rd.file] = Alloc] /\ Goto(rd.then)
  /\ UNCHANGED <<job, piped, nread, flush, opened, lib, waited>>

\* main_file_read of a file, and unit by unit of a pipe, to the end or until there
\* is as much as was asked for.
FileRead ==
  /\ pc = "reading" /\ rd.file \notin fresh \cup piped
  /\ LET b == Block(rd.file, pos[rd.file], rd.want)
     IN  rd' = [rd EXCEPT !.got = b] /\ pos' = [pos EXCEPT ![rd.file] = @ + Len(b)]
  /\ Goto(rd.then)
  /\ UNCHANGED <<job, fresh, piped, nread, flush, opened, lib, waited>>
ReadFails ==
  /\ "read" \in Faults /\ pc = "reading" /\ rd.file \notin piped
  /\ Finish("failure")
  /\ UNCHANGED <<job, rd, pos, fresh, piped, nread, flush, opened, lib, waited>>
PipeRead ==
  LET q == Stdout(Decomp(rd.file)) IN
  /\ pc = "reading" /\ rd.file \in piped \ fresh
  /\ IF Len(rd.got) = rd.want \/ (pipe[q].buf = <<>> /\ pipe[q].writers = {})
     THEN pc' = rd.then /\ UNCHANGED <<rd, pos, pipe>>
     ELSE /\ pipe[q].buf # <<>> /\ pos' = [pos EXCEPT ![rd.file] = @ + 1]
          /\ rd' = [rd EXCEPT !.got = Append(@, Head(pipe[q].buf))]
          /\ pipe' = [pipe EXCEPT ![q].buf = Tail(@)] /\ UNCHANGED pc
  /\ UNCHANGED <<job, fresh, piped, nread, flush, opened, lib, waited, result, kid, ext_subprocs, written>>
Failing ==
  /\ pc = "failing" /\ Finish("failure")
  /\ UNCHANGED <<job, rd, pos, fresh, piped, nread, flush, opened, lib, waited>>

\* After the read: a short block is the last.  An empty one ends the loop, unless
\* nothing has been done yet.
GotInput ==
  /\ pc = "got"
  /\ flush' = (flush \/ Len(rd.got) < WinsizeOf)
  /\ nread' = Len(rd.got) /\ lib' = [lib EXCEPT !.avail = rd.got]
  /\ Goto(IF rd.got = <<>> /\ lib.window > 0 THEN "done" ELSE "again")
  /\ UNCHANGED <<job, rd, pos, fresh, piped, opened, waited>>

-----------------------------------------------------------------------------
(* The library returns.                                                    *)

mainFrame == <<job, rd, pos, fresh, piped, nread, flush, opened, waited>>

\* XD3_INPUT: the loop goes on while blocks are full.
GoesOn(n) == n = WinsizeOf
LibInput ==
  /\ pc = "again" /\ lib.avail = <<>>
  /\ lib.st = "post" \/ (lib.st = "input" /\ job.cmd # "encode")
  /\ lib' = [lib EXCEPT !.st = "input"]
  /\ Goto(IF GoesOn(nread) THEN "read" ELSE "done")
  /\ UNCHANGED mainFrame

\* XD3_WINSTART of the encoder, for a block that may be empty.
EncodeWindow ==
  /\ pc = "again" /\ job.cmd = "encode" /\ lib.st = "input"
  /\ lib' = [lib EXCEPT !.st = "work", !.avail = <<>>, !.fed = @ \o lib.avail]
  /\ UNCHANGED <<mainFrame, pc, result, extVars>>

\* The decoder takes a unit: the header of the file; the header of a window, with
\* XD3_GOTHEADER or XD3_WINSTART, whereupon the source may be opened, and printhdr
\* has its output; or the rest of a window.
DecodeUnit ==
  LET u == Head(lib.avail)
      header == u > 1 /\ lib.part = <<>>
  IN  /\ pc = "again" /\ job.cmd # "encode" /\ lib.st = "input" /\ lib.avail # <<>>
      /\ lib' = [lib EXCEPT !.avail = Tail(@), !.fed = Append(@, u),
                            !.part = IF header THEN <<u>> ELSE <<>>,
                            !.st = IF u = 1 \/ (header /\ job.cmd = "decode") THEN "input" ELSE "work"]
      /\ Goto(IF header /\ lib.window = 0 /\ job.cmd = "decode" /\ job.source
              THEN "source" ELSE "again")
      /\ UNCHANGED mainFrame

\* main_getblk_func: more of the source, as long as there is more.
GetBlock ==
  /\ pc = "again" /\ lib.st = "work" /\ job.source /\ job.cmd # "printhdr"
  /\ pos["src"] < job.size["src"] /\ (Len(rd.got) = rd.want \/ rd.file # "src")
  /\ Reads("src", SrcBlock, "again") /\ Goto("reading")
  /\ UNCHANGED <<job, pos, fresh, piped, nread, flush, opened, lib, waited>>

LibError ==
  /\ "lib" \in Faults /\ pc = "again" /\ lib.st = "work" /\ Finish("failure")
  /\ UNCHANGED <<lib, mainFrame>>

\* XD3_OUTPUT: the output is opened, late, and written.  To print a header ends the
\* stream here.
LibOutput ==
  /\ pc = "again" /\ lib.st = "work"
  /\ lib' = [lib EXCEPT !.st = "out", !.part = <<>>]
  /\ Goto("output") /\ UNCHANGED mainFrame
OpenOutput ==
  /\ pc = "output" /\ ~ opened /\ ~ job.noout
  /\ \/ /\ "open" \in Faults /\ Finish("failure") /\ UNCHANGED opened
     \/ /\ ~ job.recomp /\ opened' = TRUE /\ Goto("output")
     \/ /\ job.recomp /\ UNCHANGED <<written, result>>
        /\ \E forks \in IF "fork" \in Faults THEN {0, 1} ELSE {1} :
             /\ Recompress(forks)
             /\ opened' = (forks = 1) /\ pc' = IF forks = 1 THEN "output" ELSE "failing"
  /\ UNCHANGED <<lib, job, rd, pos, fresh, piped, nread, flush, waited>>
WriteOutput ==
  LET q == Stdin(Recomp)  w == lib.window + 1 IN
  /\ pc = "output" /\ (opened \/ job.noout)
  /\ \/ /\ job.cmd = "printhdr"
        /\ lib' = [lib EXCEPT !.st = "aborted"] /\ Goto("done")
     \/ /\ job.cmd # "printhdr" /\ job.noout
        /\ lib' = [lib EXCEPT !.st = "finish"] /\ Goto("again")
     \/ /\ job.cmd # "printhdr" /\ ~ job.noout /\ ~ job.recomp
        /\ lib' = [lib EXCEPT !.st = "finish"] /\ pc' = "again" /\ written' = Append(written, w)
        /\ UNCHANGED <<result, pipe, kid, ext_subprocs>>
     \/ /\ job.cmd # "printhdr" /\ ~ job.noout /\ job.recomp /\ ~ Broken(q) /\ Room(q)
        /\ lib' = [lib EXCEPT !.st = "finish"] /\ pc' = "again"
        /\ pipe' = [pipe EXCEPT ![q].buf = Append(@, w)]
        /\ UNCHANGED <<result, kid, ext_subprocs, written>>
     \/ /\ job.recomp /\ opened /\ Broken(q) /\ Finish("signal") /\ UNCHANGED lib
     \/ /\ "write" \in Faults /\ job.cmd # "printhdr" /\ ~ job.noout /\ ~ job.recomp
        /\ Finish("failure") /\ UNCHANGED lib
  /\ UNCHANGED mainFrame

\* XD3_WINFINISH.
WinFinish ==
  /\ pc = "again" /\ lib.st = "finish"
  /\ lib' = [lib EXCEPT !.window = @ + 1, !.st = IF job.cmd = "encode" THEN "post" ELSE "input"]
  /\ UNCHANGED <<mainFrame, pc, result, extVars>>

-----------------------------------------------------------------------------
(* The end.                                                                *)

\* Inputs and output are closed before the children are waited for: "or else it
\* hangs".  (A slip: the output is left open.)
OpenEndsOutput == [q \in Pipe |-> [pipe[q] EXCEPT !.readers = @ \ {Tool}]]
OpenEnds == Without(pipe, Tool)
\* Closing the output may report that what was written did not get there.
CloseFiles ==
  /\ pc = "done"
  /\ \/ ~ job.noout /\ job.cmd # "printhdr" /\ ~ opened /\ Finish("failure")
     \/ opened /\ "write" \in Faults /\ Finish("failure")
     \/ /\ job.noout \/ job.cmd = "printhdr" \/ opened
        /\ pipe' = OpenEnds /\ pc' = "wait"
        /\ UNCHANGED <<result, kid, ext_subprocs, written>>
  /\ UNCHANGED <<lib, mainFrame>>

\* main_external_compression_finish, in the order the children were started.  (A
\* child found to have failed is still in ext_subprocs and killed once more.)
WaitChild ==
  /\ pc = "wait" /\ waited < Len(ext_subprocs) /\ ~ Running(ext_subprocs[waited + 1])
  /\ IF StatusOk(ext_subprocs[waited + 1]) THEN waited' = waited + 1 /\ Goto("wait")
     ELSE Finish("failure") /\ UNCHANGED waited
  /\ UNCHANGED <<job, rd, pos, fresh, piped, nread, flush, opened, lib>>

\* xd3_close_stream: not inside a window of a delta.
CloseStream ==
  /\ pc = "wait" /\ waited = Len(ext_subprocs)
  /\ Finish(IF lib.part = <<>> THEN "success" ELSE "failure")
  /\ UNCHANGED <<lib, mainFrame>>

ParentStep ==
  \/ SetSource \/ OpenFails \/ ReadInput \/ FirstRead \/ FileRead \/ ReadFails
  \/ PipeRead \/ Failing \/ GotInput \/ LibInput \/ EncodeWindow \/ DecodeUnit
  \/ GetBlock \/ LibError \/ LibOutput \/ OpenOutput \/ WriteOutput \/ WinFinish
  \/ CloseFiles \/ WaitChild \/ CloseStream
Next ==
  \/ ParentStep
  \/ \E p \in Child : ChildStep(p) /\ UNCHANGED parentVars
  \/ \E p \in Filter : FilterFails(p) /\ UNCHANGED parentVars

\* Each process goes on as long as it can; none has to fail.
Fairness == WF_toolVars(ParentStep) /\ \A p \in Child : WF_toolVars(ChildStep(p) /\ UNCHANGED parentVars)
Spec == MainInit /\ [][Next]_toolVars /\ Fairness

\* With the two reads whose failure nobody notices.
Unnoticed == RestReadFails \/ \E f \in {"src", "inp"} : CopierReadFails(f) /\ UNCHANGED parentVars
UnnoticedSpec == MainInit /\ [][Next \/ Unnoticed]_toolVars /\ Fairness

-----------------------------------------------------------------------------
(* Properties.                                                             *)

Ended == result # "none" /\ \A p \in Child : ~ Running(p)

\* When the tool reports success, everything it was asked for is done: the input has
\* been given to the library to its last unit, in order, across a first block in two
\* parts, a pipe and an end anywhere; each window is in the output file, also behind a
\* recompressor; and every child has ended, none with an error.
CompleteOnSuccess ==
  result = "success" =>
    /\ \A p \in Child : kid[p].st \in {"none", "ok", "sigpipe"}
    /\ job.cmd # "printhdr" =>
         /\ lib.fed = Block("inp", 0, job.size["inp"])
         /\ ~ job.noout => written = [k \in 1 .. lib.window |-> k]

\* The tool and all its children come to an end, whatever fails: nobody waits for a
\* pipe that nobody will write, read or close.
AllEnd == <>Ended
=============================================================================
