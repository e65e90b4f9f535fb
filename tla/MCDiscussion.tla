----------------------------- MODULE MCDiscussion -----------------------------
(* Small instances of Discussion for TLC.                                  *)
EXTENDS Discussion, TLC

CONSTANTS u, v           \* two users
CONSTANTS a, b, z        \* texts; the slugs of a and b are equal
CONSTANTS word           \* in a and z
CONSTANTS x, y           \* contents of files

Slugs == (a :> "a") @@ (b :> "a") @@ (z :> "z")
TitleWords == (a :> {word}) @@ (b :> {}) @@ (z :> {word})

VisitorAndAdministrator == {(u :> "visitor") @@ (v :> "administrator")}

file(key, content, remove) == [key |-> key, content |-> content, remove |-> remove]

\* Nothing; a new file; two; a key with or without content; a key of another
\* folder; a file taken off.
FileLists ==
  {<< >>, <<file(None, x, FALSE)>>, <<file(None, x, FALSE), file(None, y, FALSE)>>,
   <<file(1, y, FALSE)>>, <<file(1, None, FALSE)>>, <<file(9, x, FALSE)>>,
   <<file(9, None, FALSE)>>, <<file(1, None, TRUE)>>}
NoFiles == {<< >>}

about(operations, files, n) ==
  [operations |-> operations, files |-> files, posts |-> n, comments |-> n]

Everywhere ==
  {about({"CreatePost", "UpdatePost", "SetResponse", "DeletePost"}, NoFiles, 2),
   about({"CreatePost", "DeletePost", "PostComment", "DeleteComment"}, NoFiles, 2),
   about({"CreatePost", "PostComment", "ToggleReaction"}, NoFiles, 2),
   about({"CreatePost", "DeletePost", "Subscribe", "Unsubscribe"}, NoFiles, 2),
   about({"CreatePost", "DeletePost", "CreateTag", "AssignTag"}, NoFiles, 2),
   about({"CreatePost", "CreateTag", "AssignTag", "UnassignTag", "EditTag", "DeleteTag",
          "ImportTags"}, NoFiles, 2),
   about({"CreatePost", "UpdatePost", "PostComment"}, FileLists, 1),
   about({"CreatePost", "PostComment", "UpdateComment"}, FileLists, 1)}

search(view, statuses, tags, untagged, mine, text) ==
  [view |-> view, statuses |-> statuses, tags |-> tags, untagged |-> untagged, mine |-> mine,
   text |-> text]

ListedSearches ==
  {search("recent", {}, {}, FALSE, FALSE, None), search("all", {}, {"a"}, FALSE, FALSE, None),
   search("most-discussed", {"open", "duplicate"}, {}, TRUE, FALSE, None),
   search("planned", {}, {}, FALSE, TRUE, None), search("all", {}, {}, FALSE, FALSE, word)}
=============================================================================
