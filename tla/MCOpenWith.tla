------------------------------ MODULE MCOpenWith ------------------------------
\* One client program registers a viewer it serves itself and an executable.
EXTENDS OpenWith

TwoOffers ==
    {[name |-> "View", method |-> "rpc", target |-> "valid",
      patterns |-> <<"fixed">>],
     [name |-> "New", method |-> "executable", target |-> "valid",
      patterns |-> <<"miss">>]}
==============================================================================
