--------------------------- MODULE ObjectStorage ---------------------------
(***************************************************************************)
(* The store of protocol objects behind StorageAdapter                     *)
(* (packages/storage-adapter/src), as a value and what a call makes of it. *)
(*                                                                         *)
(* Objects are stored under their own hash, and a hash is taken to name    *)
(* one object: an object stands for its hash, its URI and its namespace.   *)
(*                                                                         *)
(* putObject has a beginning and an end.  LocalStorageAdapter opens the    *)
(* file in place, which empties it, and fills it; the two others keep what *)
(* they have until the new text is complete (MemoryStorageAdapter in one   *)
(* step, ZeroGStorageAdapter under a root hash of the text).  The loss of  *)
(* the memory adapter's objects with its process is left out.              *)
(***************************************************************************)
CONSTANT RewritesInPlace    \* the adapter is LocalStorageAdapter

\* whole are the objects that can be read, torn the files with less than an
\* object in them.  writes are the pairs of a writer and the object whose file it
\* was the last to open.
EmptyStore == [whole |-> {}, torn |-> {}, writes |-> {}]

\* What putObject leaves behind when the file is open and nothing written.
Opened(store, writer, object) ==
    IF RewritesInPlace
    THEN [whole |-> store.whole \ {object}, torn |-> store.torn \cup {object},
          writes |-> {w \in store.writes : w[2] # object} \cup {<<writer, object>>}]
    ELSE store

Completed(store, writer, object) ==
    [whole |-> store.whole \cup {object}, torn |-> store.torn \ {object},
     writes |-> store.writes \ {<<writer, object>>}]

\* For Written: the upload returns before the object can be read.
WrittenLater(store, writer, object) == {store}

\* What it may leave behind when it returns.  When another call has opened the file
\* since, the beginning of the text may be missing.
Written(store, writer, object) ==
    {Completed(store, writer, object)} \cup
    IF RewritesInPlace /\ <<writer, object>> \notin store.writes THEN {store} ELSE {}

\* getObject returns an object under the expected hash, or it fails: nothing is
\* there (StorageNotFoundError), or not the text (StorageIntegrityError).
Loads(store, object) == object \in store.whole

=============================================================================
