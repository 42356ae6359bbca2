SPECIFICATION FairSpec
CONSTANTS
    None = None
    CA = {ca}
INVARIANTS PublicationPlanned RecurringPlanned RrdpPlanned DeletedIsClean
PROPERTY PublishedEventually
