\* An outage announced, lost from the feed and ended unseen leaves its count behind.
SPECIFICATION Spec
CONSTANTS
    ConfirmPolls = 2
    MaxNotify = 2
PROPERTIES
    NoRecoveryOfUnannouncedOutage
