---------------------------- MODULE MCClientSync ----------------------------
(* Two devices and two files for TLC: the scenarios of module ClientSync.  *)
EXTENDS ClientSync, TLC

CONSTANTS d1, d2, notes, photo

Plays(starting, old, script) ==
    [starting |-> starting, old |-> old, refused |-> {}, script |-> script]

Do(kind, d, file) == [kind |-> kind, at |-> d, file |-> file]

\* Two changes in a row at one device: for the watcher's mailbox and the input
\* thread's, and of one file
Bursts ==
    {Plays({}, {}, <<Do("move in", d1, notes), Do("move in", d1, photo)>>),
     Plays({}, {}, <<Do("upload", d1, notes), Do("upload", d1, photo)>>),
     Plays({}, {}, <<Do("save", d1, notes), Do("move in", d1, notes)>>),
     Plays({}, {notes}, <<Do("save", d1, notes), Do("remove", d1, notes)>>)}

\* Deletions: each way of making them, alone, at two devices, and with a file
\* that comes in at the other device
Deletions ==
    {Plays({}, {notes}, <<Do("delete", d1, notes)>>),
     Plays({}, {notes}, <<Do("remove", d1, notes)>>),
     Plays({}, {notes}, <<Do("delete_safe", d1, notes), Do("remove", d2, notes)>>),
     Plays({}, {notes}, <<Do("delete_safe", d1, notes), Do("move in", d2, photo)>>)}

\* A device starts, with and without files to get, or asks for them again
Starts ==
    {Plays({d2}, {notes}, << >>),
     Plays({d2}, {}, <<Do("move in", d2, notes)>>),
     Plays({}, {notes}, <<Do("get_sync_dir", d1, notes)>>)}

\* The server may fail to write a new version of a file that it has
Refusals ==
    {[Plays({}, {notes}, <<Do("move in", d1, notes)>>) EXCEPT !.refused = {notes}]}

SmallScenarios == Bursts \cup Deletions \cup Starts \cup Refusals
=============================================================================
