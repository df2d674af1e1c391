------------------------------ MODULE MCJobTable ------------------------------
\* A user who hides what is canceled, and who looks for what schedulers know.
EXTENDS JobTable, TLC

AddressSymmetry == Permutations(Addresses)

TwoFilters ==
    {NoFilter,
     [NoFilter EXCEPT !.statuses = @ \ {"Canceled"},
                      !.terms = {[word |-> "queueId", negated |-> FALSE]}]}
==============================================================================
