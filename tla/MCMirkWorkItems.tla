--------------------------- MODULE MCMirkWorkItems ---------------------------
EXTENDS MirkWorkItems, TLC

CONSTANTS transition, assign, board, upsert

\* transitionStory changes a story, assignReview a story and the reviews,
\* upsertBoardView the saved boards, upsertStory a story.
MCTouches ==
  [m \in Mutations |->
     IF m = assign THEN {"story", "reviews"}
     ELSE IF m = board THEN {"boardViews"} ELSE {"story"}]
=============================================================================
