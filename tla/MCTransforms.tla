----------------------------- MODULE MCTransforms -----------------------------
EXTENDS Transforms

MCPlans == {<<>>, <<1>>, <<2>>, <<1, 2>>, <<2, 1, 1>>}
MCXorPlans == {<<>>, <<2, 1>>, <<2, 3, 2>>}
=============================================================================
