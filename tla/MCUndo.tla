------------------------------- MODULE MCUndo -------------------------------
(* The edit tools one call at a time: a patch of "f" and of "g", whose part  *)
(* for "g" finds no place, and then Undo.                                    *)
EXTENDS FileEdits

MCFirst == [p \in {"f", "g"} |-> <<"a">>]
MCTexts == {<<"b">>}
MCTrim == [l \in {"a", "b"} |-> l]
MCHunk(old, new) == [old |-> old, new |-> new]
MCReplaces == {<<MCHunk(<<"a">>, <<"b">>)>>}
MCPatches ==
  {<<[path |-> "f", hunks |-> <<MCHunk(<<"a">>, <<"b">>)>>],
     [path |-> "g", hunks |-> <<MCHunk(<<"b">>, <<"a">>)>>]>>}
=============================================================================
