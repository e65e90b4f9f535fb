----------------------------- MODULE Attachments -----------------------------
(***************************************************************************)
(* The files of posts and comments.  A request names some files by the key *)
(* of a blob, brings the content of others, and asks for some to be taken  *)
(* off; blobs are stored outside the request's transaction.                *)
(***************************************************************************)
EXTENDS DiscussionStore

CONSTANT Outside        \* the keys that are not in the folder "attachments"

ASSUME OutsideAssumption == Outside \subseteq Key

\* A dto.ImageUpload.
File == [key : Key \cup {None}, content : Content \cup {None}, remove : BOOLEAN]
Blobs == [Key -> Content \cup {None}]

\* rand.String(64) draws a key nobody has seen.
unseen(d, b, files) ==
  {k \in Key \ Outside : /\ b[k] = None
                         /\ \A a \in d.attachments : a.key # k
                         /\ \A i \in DOMAIN files : files[i].key # k}

withContent(files) == {i \in DOMAIN files : files[i].content # None}

\* The files whose key is looked up as the request names it: all others get a
\* new one first.
named(files) == {i \in withContent(files) : files[i].key \notin Outside \cup {None}}

\* Mutation of keepsKey: a blob that exists is overwritten.
keepsKeyAsNamed(there, file, fails) == file.key \notin Outside \cup {None}

\* A key of another folder, or of a blob that is found, is not written to.  A
\* lookup that fails finds nothing, whatever is there.
keepsKey(there, file, fails) ==
  file.key \notin Outside \cup {None} /\ (file.key \in there => fails)

\* The keys files may get that are uploaded one after the other; the lookups of
\* those in failing fail.
uploadImages(d, b, files, failing) ==
  {key \in [DOMAIN files -> Key \cup {None}] : \A i \in DOMAIN files :
     LET before == {key[j] : j \in {k \in withContent(files) : k < i}}
         there == {k \in Key : b[k] # None} \cup before
     IN IF i \in withContent(files) /\ ~keepsKey(there, files[i], i \in failing)
        THEN key[i] \in unseen(d, b, files) \ before
        ELSE key[i] = files[i].key}

\* The blobs after the upload, which replaces what it meets.
stored(b, files, key) ==
  [k \in Key |-> LET here == {i \in withContent(files) : key[i] = k}
                IN IF here = {} THEN b[k] ELSE files[Max(here)].content]

\* The rows of one text after its files were deleted and inserted in turn: the
\* last one decides, and what was never deleted is not inserted again.
setAttachments(d, b, p, c, files, key) ==
  LET deleted == {key[i] : i \in {j \in DOMAIN files : files[j].remove}}
      inserted == {key[i] : i \in {j \in DOMAIN files :
                     \A l \in DOMAIN files : l >= j /\ key[l] = key[j] => ~files[l].remove}}
      kept == {a \in d.attachments : ~(a.post = p /\ a.comment = c /\ a.key \in deleted)}
      there == {a.key : a \in {x \in kept : x.post = p /\ x.comment = c}}
  IN [d EXCEPT !.attachments =
        kept \cup {[post |-> p, comment |-> c, key |-> k, shows |-> b[k]] : k \in inserted \ there}]

getAttachments(d, p, c) == {a.key : a \in {x \in d.attachments : x.post = p /\ x.comment = c}}

\* What the request brings is added, what it takes off is subtracted as often
\* as it says so; files named by key alone are not counted.
MultiImageUpload(current, files, maxUploads) ==
  LET brought == Len(SelectSeq(files, LAMBDA f : ~f.remove /\ f.content # None))
      takenOff == Len(SelectSeq(files, LAMBDA f : f.remove /\ f.key \in current))
  IN Cardinality(current) + brought - takenOff <= maxUploads

\* A file without key or content can be sent; the row it would leave behind
\* shows nothing and is not modelled.
wellFormed(files) == \A i \in DOMAIN files : files[i].key # None \/ files[i].content # None
=============================================================================
