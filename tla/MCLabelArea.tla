------------------------------ MODULE MCLabelArea ------------------------------
EXTENDS LabelArea

\* Two lower limits under one upper, as in the code, and components that are small;
\* sizes on either side of each limit occur.
MCLimits == <<<<3, 12>>, <<5, 12>>, <<1, 4>>>>
===============================================================================
