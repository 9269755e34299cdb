----------------------------- MODULE MCComposer -----------------------------
EXTENDS Composer, TLC

\* Few things go on at a time: posts, openings, a reply, a reload, a change of
\* members that the store has not seen.
CONSTANT MaxAtOnce

Focus ==
  Len(reqs) + Len(fetches) + (IF page.replyTo # 0 THEN 1 ELSE 0)
    + (IF listing # None THEN 1 ELSE 0)
    + (IF news THEN 1 ELSE 0) <= MaxAtOnce

=============================================================================
